---- MODULE Spec2Model ----
(***************************************************************************)
(* Verified rule kernel: the per-session artifact store (draft / runtime / *)
(* verification status), the pairwise conflict detector and the publish    *)
(* handler, as implemented in src/backend/src.                             *)
(*                                                                         *)
(* A rule outcome string "Kind(Action)" is written <<Kind, Action>>, a     *)
(* version string as the sequence of its tokens; the ISO timestamps are    *)
(* values of the logical wall clock `clock`.                               *)
(***************************************************************************)
EXTENDS Integers, Sequences, FiniteSets, TLC

\* ------------------------------------------------------------------------
\* Bounds of the model
\* ------------------------------------------------------------------------
MaxRevision == 2          \* draft requests are explored while revision < MaxRevision
MaxEdits == 3             \* rule requests in a row in SpecRules
MaxText == 5              \* lexemes of an outcome text handed to parse_verdict
MaxToken == 2             \* characters of an action token
MaxTime == 2              \* time.monotonic() runs from 0 to MaxTime
MaxRequests == 2          \* requests started on the session manager
MaxRules == 3             \* longest rule list handed to detect_conflicts
MaxIndex == 1             \* collection indexes offered by callers: -1..MaxIndex

None == [is_none |-> TRUE]
NoTime == 0 - 1           \* a timestamp that is None
SeedTime == 0 - 2         \* the created_at value "seed" of the seed entries
NoUser == "None"
NoDir == << >>

\* ------------------------------------------------------------------------
\* Seed data (kernel/seed.py)
\* ------------------------------------------------------------------------
ID_OBLIGATE_IMMEDIATE == "hg_obligate_immediate_delivery_severe_pe_34"
ID_OBLIGATE_EXPEDITED == "hg_obligate_expedited_delivery_placental_abruption"
ID_ALLOW_EXPEDITED == "hg_allow_expedited_delivery_hypertensive_28"
ID_ALLOW_EXPECTANT == "hg_allow_expectant_nonsevere_early_window"
ID_NEW == "hg_reject_immediate_delivery_new"

Hyperedge(edge_id, premises, expected_outcome, note) ==
    [edge_id |-> edge_id, premises |-> premises,
     expected_outcome |-> expected_outcome, note |-> note]

SEED_RULES ==
    << Hyperedge(ID_OBLIGATE_IMMEDIATE,
                 {"Dx.Preeclampsia", "DxAttr.Preeclampsia.Severe", "Ctx.GA_>=34w"},
                 <<"Obligated", "Action.ImmediateDelivery">>,
                 "Severe preeclampsia at >=34w obligates immediate delivery."),
       Hyperedge(ID_OBLIGATE_EXPEDITED,
                 {"Dx.PlacentalAbruption"},
                 <<"Obligated", "Action.ExpeditedDelivery">>,
                 "Placental abruption obligates expedited delivery."),
       Hyperedge(ID_ALLOW_EXPEDITED,
                 {"Dx.HypertensiveDisorder", "Ctx.GA_>=28w"},
                 <<"Allowed", "Action.ExpeditedDelivery">>,
                 "Hypertensive disorder at >=28w permits expedited delivery."),
       Hyperedge(ID_ALLOW_EXPECTANT,
                 {"Dx.Preeclampsia", "Ctx.GA_>=28w", "Ctx.MaternalAge_<35y"},
                 <<"Allowed", "Action.ExpectantManagement">>,
                 "Non-severe early window may allow expectant management.") >>

SEED_INCOMPATIBILITY ==
    << [a |-> "Action.ImmediateDelivery", b |-> "Action.ExpectantManagement",
        created_by |-> "system", created_at |-> SeedTime],
       [a |-> "Action.ExpeditedDelivery", b |-> "Action.ExpectantManagement",
        created_by |-> "system", created_at |-> SeedTime] >>

SEED_INFEASIBILITY ==
    << [action |-> "Action.ExpectantManagement", premises |-> <<"Dx.FetalDemise">>,
        created_by |-> "system", created_at |-> SeedTime],
       [action |-> "Action.ExpectantManagement", premises |-> <<"DxAttr.Preeclampsia.Severe">>,
        created_by |-> "system", created_at |-> SeedTime],
       [action |-> "Action.ImmediateDelivery", premises |-> <<"Ctx.GA_<34w">>,
        created_by |-> "system", created_at |-> SeedTime] >>

SEED_FACT_EXCLUSIONS ==
    << [facts |-> <<"Ctx.GA_<34w", "Ctx.GA_>=34w">>,
        created_by |-> "system", created_at |-> SeedTime] >>

SEED_MANIFEST_DEFAULTS ==
    [artifact_source |-> "in_memory", ruleset_version |-> <<"local", "-", "session">>,
     change_summary |-> <<"Seed demo ruleset (pending draft baseline).">>]

\* Ascending order of the rule ids as Python compares strings (code points).
EdgeIdOrder ==
    << ID_ALLOW_EXPECTANT, ID_ALLOW_EXPEDITED, ID_OBLIGATE_EXPEDITED,
       ID_OBLIGATE_IMMEDIATE, ID_NEW,
       "r_allow_immediate_pe", "r_disallow_immediate_pe", "r_obligate_blank",
       "r_obligate_expedited_pe_34",
       "r_obligate_immediate_pe_34", "r_reject_blank", "r_reject_expedited_pe",
       "r_reject_immediate_demise", "r_reject_immediate_pe", "r_risk_marker_pe" >>

EdgeIdRank(id) == CHOOSE i \in 1..Len(EdgeIdOrder) : EdgeIdOrder[i] = id

\* ------------------------------------------------------------------------
\* Helpers on sequences and dicts
\* ------------------------------------------------------------------------
Range(s) == {s[i] : i \in 1..Len(s)}

EdgeIds(rules) == {rules[i].edge_id : i \in 1..Len(rules)}

RECURSIVE SeqFilterOut(_, _)
\* [e for e in rules if e.edge_id != rule_id]
SeqFilterOut(rules, rule_id) ==
    IF rules = << >> THEN << >>
    ELSE IF Head(rules).edge_id # rule_id
         THEN <<Head(rules)>> \o SeqFilterOut(Tail(rules), rule_id)
         ELSE SeqFilterOut(Tail(rules), rule_id)

\* list.pop(index) with a 0-based index
PopAt(s, index) == [i \in 1..(Len(s) - 1) |-> IF i <= index THEN s[i] ELSE s[i + 1]]

\* dict with one key set / one key removed
DictSet(d, k, v) == [x \in (DOMAIN d) \cup {k} |-> IF x = k THEN v ELSE d[x]]
DictPop(d, k) == [x \in (DOMAIN d) \ {k} |-> d[x]]
DictUpdate(d, e) == [x \in (DOMAIN d) \cup (DOMAIN e) |-> IF x \in DOMAIN e THEN e[x] ELSE d[x]]
EmptyDict == [x \in {} |-> None]

\* {edge.edge_id: edge for edge in rules}: a later entry with the same id wins
RECURSIVE EdgeMap(_)
EdgeMap(rules) ==
    IF rules = << >> THEN EmptyDict
    ELSE LET n == Len(rules)
         IN DictSet(EdgeMap(SubSeq(rules, 1, n - 1)), rules[n].edge_id, rules[n])

\* [merged_map[key] for key in sorted(merged_map)]
RECURSIVE SortedValues(_)
SortedValues(m) ==
    IF DOMAIN m = {} THEN << >>
    ELSE LET k == CHOOSE x \in DOMAIN m :
                      \A y \in DOMAIN m : EdgeIdRank(x) <= EdgeIdRank(y)
         IN <<m[k]>> \o SortedValues(DictPop(m, k))

\* ------------------------------------------------------------------------
\* kernel/store.py: InMemoryKernelArtifactStore
\* ------------------------------------------------------------------------
KernelArtifactManifest(artifact_source, ruleset_version, revision, updated_at, updated_by, change_summary) ==
    [artifact_source |-> artifact_source, ruleset_version |-> ruleset_version,
     revision |-> revision, updated_at |-> updated_at, updated_by |-> updated_by,
     change_summary |-> change_summary]

RuleProvenance(created_by, created_at) ==
    [created_by |-> created_by, created_at |-> created_at]

KernelVerificationStatus(status, verified_at, verified_by, verified_snapshot_dir) ==
    [status |-> status, verified_at |-> verified_at, verified_by |-> verified_by,
     verified_snapshot_dir |-> verified_snapshot_dir]

\* __init__: the seeded store, constructed at time `now`
NewStore(now) ==
    [draft |->
        [manifest |-> KernelArtifactManifest(SEED_MANIFEST_DEFAULTS.artifact_source,
                                             SEED_MANIFEST_DEFAULTS.ruleset_version,
                                             1, now, "system",
                                             SEED_MANIFEST_DEFAULTS.change_summary),
         proposals |-> SEED_RULES,
         rule_provenance |-> [id \in EdgeIds(SEED_RULES) |-> RuleProvenance("system", now)],
         incompatibility |-> SEED_INCOMPATIBILITY,
         infeasibility |-> SEED_INFEASIBILITY,
         fact_exclusions |-> SEED_FACT_EXCLUSIONS],
     runtime_bundle |-> None,
     runtime_verification |-> KernelVerificationStatus("unverified", NoTime, NoUser, NoDir)]

\* The result of a store method: the store afterwards and the exception raised ("" if none).
Returned(store) == [store |-> store, raised |-> ""]
Raised(store, exc) == [store |-> store, raised |-> exc]

\* A faulty _mutated_draft, which forgets to advance the revision.
MutatedDraft_keeps_revision(draft, now, updated_by, change_summary, changes) ==
    LET Pick(field) == IF field \in DOMAIN changes THEN changes[field] ELSE draft[field]
    IN [manifest |-> KernelArtifactManifest(draft.manifest.artifact_source,
                                            draft.manifest.ruleset_version,
                                            draft.manifest.revision,
                                            now, updated_by, change_summary),
        proposals |-> Pick("proposals"),
        rule_provenance |-> Pick("rule_provenance"),
        incompatibility |-> Pick("incompatibility"),
        infeasibility |-> Pick("infeasibility"),
        fact_exclusions |-> Pick("fact_exclusions")]

\* _mutated_draft: `changes` holds the keyword arguments that are not None
MutatedDraft(draft, now, updated_by, change_summary, changes) ==
    LET Pick(field) == IF field \in DOMAIN changes THEN changes[field] ELSE draft[field]
    IN [manifest |-> KernelArtifactManifest(draft.manifest.artifact_source,
                                            draft.manifest.ruleset_version,
                                            draft.manifest.revision + 1,
                                            now, updated_by, change_summary),
        proposals |-> Pick("proposals"),
        rule_provenance |-> Pick("rule_provenance"),
        incompatibility |-> Pick("incompatibility"),
        infeasibility |-> Pick("infeasibility"),
        fact_exclusions |-> Pick("fact_exclusions")]

\* A faulty replace_draft_proposals, which gives every rule a new provenance
replace_draft_proposals_new_provenance(store, now, ruleset_version, updated_by, change_summary, rules) ==
    LET manifest == KernelArtifactManifest(store.draft.manifest.artifact_source,
                                           ruleset_version,
                                           store.draft.manifest.revision + 1,
                                           now, updated_by, change_summary)
    IN Returned([store EXCEPT !.draft =
                    [manifest |-> manifest,
                     proposals |-> rules,
                     rule_provenance |->
                        [id \in EdgeIds(rules) |-> RuleProvenance(updated_by, now)],
                     incompatibility |-> store.draft.incompatibility,
                     infeasibility |-> store.draft.infeasibility,
                     fact_exclusions |-> store.draft.fact_exclusions]])

\* A faulty replace_draft_proposals, which takes the replaced draft to invalidate
\* the runtime and resets the verification status.
replace_draft_proposals_resets_runtime(store, now, ruleset_version, updated_by, change_summary, rules) ==
    LET manifest == KernelArtifactManifest(store.draft.manifest.artifact_source,
                                           ruleset_version,
                                           store.draft.manifest.revision + 1,
                                           now, updated_by, change_summary)
    IN Returned([draft |->
                    [manifest |-> manifest,
                     proposals |-> rules,
                     rule_provenance |->
                        [id \in EdgeIds(rules) |->
                            IF id \in DOMAIN store.draft.rule_provenance
                            THEN store.draft.rule_provenance[id]
                            ELSE RuleProvenance(updated_by, now)],
                     incompatibility |-> store.draft.incompatibility,
                     infeasibility |-> store.draft.infeasibility,
                     fact_exclusions |-> store.draft.fact_exclusions],
                 runtime_bundle |-> store.runtime_bundle,
                 runtime_verification |->
                    KernelVerificationStatus("unverified", NoTime, NoUser, NoDir)])

replace_draft_proposals(store, now, ruleset_version, updated_by, change_summary, rules) ==
    LET previous_provenance == store.draft.rule_provenance
        next_provenance ==
            [id \in EdgeIds(rules) |->
                IF id \in DOMAIN previous_provenance
                THEN previous_provenance[id]
                ELSE RuleProvenance(updated_by, now)]
        manifest == KernelArtifactManifest(store.draft.manifest.artifact_source,
                                           ruleset_version,
                                           store.draft.manifest.revision + 1,
                                           now, updated_by, change_summary)
    IN Returned([store EXCEPT !.draft =
                    [manifest |-> manifest,
                     proposals |-> rules,
                     rule_provenance |-> next_provenance,
                     incompatibility |-> store.draft.incompatibility,
                     infeasibility |-> store.draft.infeasibility,
                     fact_exclusions |-> store.draft.fact_exclusions]])

\* A faulty _build_candidate_unlocked, which merges in the wrong direction: for
\* a rule id in both, the runtime's rule is kept.
build_candidate_unlocked_runtime_wins(store) ==
    LET runtime == store.runtime_bundle
        base_rules == IF runtime # None THEN runtime.ruleset ELSE << >>
        base_prov == IF runtime # None THEN runtime.rule_provenance ELSE EmptyDict
        merged_map == DictUpdate(EdgeMap(store.draft.proposals), EdgeMap(base_rules))
        OrRuntime(field) ==
            IF store.draft[field] # << >> THEN store.draft[field]
            ELSE IF runtime # None THEN runtime[field] ELSE << >>
    IN [manifest |-> store.draft.manifest,
        ruleset |-> SortedValues(merged_map),
        rule_provenance |-> DictUpdate(base_prov, store.draft.rule_provenance),
        incompatibility |-> OrRuntime("incompatibility"),
        infeasibility |-> OrRuntime("infeasibility"),
        fact_exclusions |-> OrRuntime("fact_exclusions"),
        proof_report |-> [status |-> "preview"]]

\* A faulty _build_candidate_unlocked, which takes the draft's constraint
\* collections also when they are empty.
build_candidate_unlocked_draft_collections(store) ==
    LET runtime == store.runtime_bundle
        base_rules == IF runtime # None THEN runtime.ruleset ELSE << >>
        base_prov == IF runtime # None THEN runtime.rule_provenance ELSE EmptyDict
        merged_map == DictUpdate(EdgeMap(base_rules), EdgeMap(store.draft.proposals))
    IN [manifest |-> store.draft.manifest,
        ruleset |-> SortedValues(merged_map),
        rule_provenance |-> DictUpdate(base_prov, store.draft.rule_provenance),
        incompatibility |-> store.draft.incompatibility,
        infeasibility |-> store.draft.infeasibility,
        fact_exclusions |-> store.draft.fact_exclusions,
        proof_report |-> [status |-> "preview"]]

\* A faulty _build_candidate_unlocked, which takes the draft's proposals for
\* the whole ruleset and forgets the rules of the runtime.
build_candidate_unlocked_draft_rules_only(store) ==
    LET runtime == store.runtime_bundle
        base_prov == IF runtime # None THEN runtime.rule_provenance ELSE EmptyDict
        OrRuntime(field) ==
            IF store.draft[field] # << >> THEN store.draft[field]
            ELSE IF runtime # None THEN runtime[field] ELSE << >>
    IN [manifest |-> store.draft.manifest,
        ruleset |-> SortedValues(EdgeMap(store.draft.proposals)),
        rule_provenance |-> DictUpdate(base_prov, store.draft.rule_provenance),
        incompatibility |-> OrRuntime("incompatibility"),
        infeasibility |-> OrRuntime("infeasibility"),
        fact_exclusions |-> OrRuntime("fact_exclusions"),
        proof_report |-> [status |-> "preview"]]

\* _build_candidate_unlocked
build_candidate_unlocked(store) ==
    LET runtime == store.runtime_bundle
        base_rules == IF runtime # None THEN runtime.ruleset ELSE << >>
        base_prov == IF runtime # None THEN runtime.rule_provenance ELSE EmptyDict
        proposal_map == EdgeMap(store.draft.proposals)
        merged_map == DictUpdate(EdgeMap(base_rules), proposal_map)
        merged_rules == SortedValues(merged_map)
        merged_prov == DictUpdate(base_prov, store.draft.rule_provenance)
        OrRuntime(field) ==
            IF store.draft[field] # << >> THEN store.draft[field]
            ELSE IF runtime # None THEN runtime[field] ELSE << >>
    IN [manifest |-> store.draft.manifest,
        ruleset |-> merged_rules,
        rule_provenance |-> merged_prov,
        incompatibility |-> OrRuntime("incompatibility"),
        infeasibility |-> OrRuntime("infeasibility"),
        fact_exclusions |-> OrRuntime("fact_exclusions"),
        proof_report |-> [status |-> "preview"]]

\* A faulty build_candidate_runtime_bundle, which takes the runtime's provenance
\* dict itself as base_prov, not a copy of it, so that the update with the
\* draft's provenance is made in the runtime bundle.
build_candidate_runtime_bundle_aliasing(store) ==
    LET bundle == build_candidate_unlocked(store)
    IN [store |-> IF store.runtime_bundle = None THEN store
                  ELSE [store EXCEPT !.runtime_bundle.rule_provenance = bundle.rule_provenance],
        bundle |-> bundle]

\* build_candidate_runtime_bundle: the store afterwards and the bundle returned
build_candidate_runtime_bundle(store) ==
    [store |-> store, bundle |-> build_candidate_unlocked(store)]

\* A faulty add_rule, without the test for an existing edge_id.
add_rule_unchecked(store, now, edge, created_by) ==
    Returned([store EXCEPT !.draft =
        MutatedDraft(store.draft, now, created_by, <<"Added rule", edge.edge_id>>,
                     [proposals |-> Append(store.draft.proposals, edge),
                      rule_provenance |-> DictSet(store.draft.rule_provenance, edge.edge_id,
                                                  RuleProvenance(created_by, now))])])

add_rule(store, now, edge, created_by) ==
    IF \E i \in 1..Len(store.draft.proposals) :
            store.draft.proposals[i].edge_id = edge.edge_id
    THEN Raised(store, "ValueError")
    ELSE LET provenance == DictSet(store.draft.rule_provenance, edge.edge_id,
                                   RuleProvenance(created_by, now))
         IN Returned([store EXCEPT !.draft =
                MutatedDraft(store.draft, now, created_by, <<"Added rule", edge.edge_id>>,
                             [proposals |-> Append(store.draft.proposals, edge),
                              rule_provenance |-> provenance])])

update_rule(store, now, rule_id, edge, updated_by) ==
    LET proposals == store.draft.proposals
        found == \E i \in 1..Len(proposals) : proposals[i].edge_id = rule_id
    IN IF ~found
       THEN Raised(store, "KeyError")
       ELSE LET first == CHOOSE i \in 1..Len(proposals) :
                             /\ proposals[i].edge_id = rule_id
                             /\ \A j \in 1..(i - 1) : proposals[j].edge_id # rule_id
                replaced == [proposals EXCEPT ![first] = edge]
                had == rule_id \in DOMAIN store.draft.rule_provenance
                old == IF had THEN store.draft.rule_provenance[rule_id]
                       ELSE RuleProvenance(updated_by, now)
                provenance == DictSet(DictPop(store.draft.rule_provenance, rule_id),
                                      edge.edge_id, old)
            IN Returned([store EXCEPT !.draft =
                   MutatedDraft(store.draft, now, updated_by, <<"Updated rule", rule_id>>,
                                [proposals |-> replaced, rule_provenance |-> provenance])])

\* A faulty remove_rule, which does not notice that nothing was removed.
remove_rule_unchecked(store, now, rule_id, updated_by) ==
    Returned([store EXCEPT !.draft =
        MutatedDraft(store.draft, now, updated_by, <<"Removed rule", rule_id>>,
                     [proposals |-> SeqFilterOut(store.draft.proposals, rule_id),
                      rule_provenance |-> DictPop(store.draft.rule_provenance, rule_id)])])

remove_rule(store, now, rule_id, updated_by) ==
    LET proposals == SeqFilterOut(store.draft.proposals, rule_id)
    IN IF Len(proposals) = Len(store.draft.proposals)
       THEN Raised(store, "KeyError")
       ELSE Returned([store EXCEPT !.draft =
                MutatedDraft(store.draft, now, updated_by, <<"Removed rule", rule_id>>,
                             [proposals |-> proposals,
                              rule_provenance |-> DictPop(store.draft.rule_provenance, rule_id)])])

\* A faulty variant of promote_candidate_to_runtime that installs the candidate
\* and leaves the verification status as it was
promote_candidate_to_runtime_keeps_status(store, now, verified_by, verified_snapshot_dir) ==
    Returned(
        [draft |->
            [manifest |-> KernelArtifactManifest(store.draft.manifest.artifact_source,
                                                 store.draft.manifest.ruleset_version,
                                                 store.draft.manifest.revision,
                                                 now, "system",
                                                 <<"No pending rule proposals. Constraints carried forward.">>),
             proposals |-> << >>,
             rule_provenance |-> EmptyDict,
             incompatibility |-> store.draft.incompatibility,
             infeasibility |-> store.draft.infeasibility,
             fact_exclusions |-> store.draft.fact_exclusions],
         runtime_bundle |-> build_candidate_unlocked(store),
         runtime_verification |-> store.runtime_verification])

\* A faulty variant of promote_candidate_to_runtime that leaves the draft's proposals in place
promote_candidate_to_runtime_keeps_proposals(store, now, verified_by, verified_snapshot_dir) ==
    Returned(
        [draft |-> [store.draft EXCEPT
                       !.manifest = KernelArtifactManifest(
                           store.draft.manifest.artifact_source,
                           store.draft.manifest.ruleset_version,
                           store.draft.manifest.revision, now, "system",
                           <<"No pending rule proposals. Constraints carried forward.">>)],
         runtime_bundle |-> build_candidate_unlocked(store),
         runtime_verification |->
            KernelVerificationStatus("verified", now, verified_by, verified_snapshot_dir)])

promote_candidate_to_runtime(store, now, verified_by, verified_snapshot_dir) ==
    LET candidate == build_candidate_unlocked(store)
    IN Returned(
        [draft |->
            [manifest |-> KernelArtifactManifest(store.draft.manifest.artifact_source,
                                                 store.draft.manifest.ruleset_version,
                                                 store.draft.manifest.revision,
                                                 now, "system",
                                                 <<"No pending rule proposals. Constraints carried forward.">>),
             proposals |-> << >>,
             rule_provenance |-> EmptyDict,
             incompatibility |-> store.draft.incompatibility,
             infeasibility |-> store.draft.infeasibility,
             fact_exclusions |-> store.draft.fact_exclusions],
         runtime_bundle |-> candidate,
         runtime_verification |->
            KernelVerificationStatus("verified", now, verified_by, verified_snapshot_dir)])

\* -- incompatibility mutations ---------------------------------------------
add_incompatibility_pair(store, now, a, b, created_by) ==
    LET pairs == store.draft.incompatibility
    IN IF \E i \in 1..Len(pairs) :
              \/ (pairs[i].a = a /\ pairs[i].b = b)
              \/ (pairs[i].a = b /\ pairs[i].b = a)
       THEN Raised(store, "ValueError")
       ELSE LET entry == [a |-> a, b |-> b, created_by |-> created_by, created_at |-> now]
            IN Returned([store EXCEPT !.draft =
                   MutatedDraft(store.draft, now, created_by,
                                <<"Added incompatibility pair", a, b>>,
                                [incompatibility |-> Append(pairs, entry)])])

update_incompatibility_pair(store, now, index, a, b, updated_by) ==
    LET pairs == store.draft.incompatibility
    IN IF index < 0 \/ index >= Len(pairs)
       THEN Raised(store, "IndexError")
       ELSE LET old == pairs[index + 1]
                entry == [a |-> a, b |-> b,
                          created_by |-> old.created_by, created_at |-> old.created_at]
            IN Returned([store EXCEPT !.draft =
                   MutatedDraft(store.draft, now, updated_by,
                                <<"Updated incompatibility pair at index", index, a, b>>,
                                [incompatibility |-> [pairs EXCEPT ![index + 1] = entry]])])

remove_incompatibility_pair(store, now, index, updated_by) ==
    LET pairs == store.draft.incompatibility
    IN IF index < 0 \/ index >= Len(pairs)
       THEN Raised(store, "IndexError")
       ELSE LET removed == pairs[index + 1]
            IN Returned([store EXCEPT !.draft =
                   MutatedDraft(store.draft, now, updated_by,
                                <<"Removed incompatibility pair", removed.a, removed.b>>,
                                [incompatibility |-> PopAt(pairs, index)])])

\* -- infeasibility mutations -----------------------------------------------
add_infeasibility_entry(store, now, action, premises, created_by) ==
    LET entry == [action |-> action, premises |-> premises,
                  created_by |-> created_by, created_at |-> now]
    IN Returned([store EXCEPT !.draft =
           MutatedDraft(store.draft, now, created_by,
                        <<"Added infeasibility entry", action, premises>>,
                        [infeasibility |-> Append(store.draft.infeasibility, entry)])])

update_infeasibility_entry(store, now, index, action, premises, updated_by) ==
    LET entries == store.draft.infeasibility
    IN IF index < 0 \/ index >= Len(entries)
       THEN Raised(store, "IndexError")
       ELSE LET old == entries[index + 1]
                entry == [action |-> action, premises |-> premises,
                          created_by |-> old.created_by, created_at |-> old.created_at]
            IN Returned([store EXCEPT !.draft =
                   MutatedDraft(store.draft, now, updated_by,
                                <<"Updated infeasibility entry at index", index, action>>,
                                [infeasibility |-> [entries EXCEPT ![index + 1] = entry]])])

remove_infeasibility_entry(store, now, index, updated_by) ==
    LET entries == store.draft.infeasibility
    IN IF index < 0 \/ index >= Len(entries)
       THEN Raised(store, "IndexError")
       ELSE LET removed == entries[index + 1]
            IN Returned([store EXCEPT !.draft =
                   MutatedDraft(store.draft, now, updated_by,
                                <<"Removed infeasibility entry for action", removed.action>>,
                                [infeasibility |-> PopAt(entries, index)])])

\* -- fact exclusion mutations ----------------------------------------------
add_fact_exclusion(store, now, facts, created_by) ==
    LET groups == store.draft.fact_exclusions
    IN IF \E i \in 1..Len(groups) : Range(groups[i].facts) = Range(facts)
       THEN Raised(store, "ValueError")
       ELSE LET entry == [facts |-> facts, created_by |-> created_by, created_at |-> now]
            IN Returned([store EXCEPT !.draft =
                   MutatedDraft(store.draft, now, created_by,
                                <<"Added fact exclusion group", facts>>,
                                [fact_exclusions |-> Append(groups, entry)])])

\* A faulty remove_fact_exclusion, which tests the upper end of the range only,
\* so that a negative index counts from the end of the list as list.pop does.
remove_fact_exclusion_from_end(store, now, index, updated_by) ==
    LET groups == store.draft.fact_exclusions
    IN IF index >= Len(groups) \/ index < 0 - Len(groups)
       THEN Raised(store, "IndexError")
       ELSE LET at == IF index < 0 THEN Len(groups) + index ELSE index
            IN Returned([store EXCEPT !.draft =
                   MutatedDraft(store.draft, now, updated_by,
                                <<"Removed fact exclusion group", groups[at + 1].facts>>,
                                [fact_exclusions |-> PopAt(groups, at)])])

remove_fact_exclusion(store, now, index, updated_by) ==
    LET groups == store.draft.fact_exclusions
    IN IF index < 0 \/ index >= Len(groups)
       THEN Raised(store, "IndexError")
       ELSE LET removed == groups[index + 1]
            IN Returned([store EXCEPT !.draft =
                   MutatedDraft(store.draft, now, updated_by,
                                <<"Removed fact exclusion group", removed.facts>>,
                                [fact_exclusions |-> PopAt(groups, index)])])

\* ------------------------------------------------------------------------
\* kernel/conflicts.py
\* ------------------------------------------------------------------------
VERDICT_KINDS == {"Obligated", "Allowed", "Disallowed", "Rejected"}

CONFLICTING_KINDS == {{"Obligated", "Rejected"}, {"Allowed", "Rejected"}}

\* An outcome <<kind, inner>> stands for the text kind(inner).  The inner texts
\* are tokens without blanks, the empty text, and BLANK.
BLANK == " "

\* str.strip() on an inner text
strip_inner(inner) == IF inner = BLANK THEN "" ELSE inner

\* parse_verdict: None unless the outcome matches _VERDICT_RE, a known kind and
\* (.+) between the parentheses; the action is group 2, stripped
parse_verdict(outcome) ==
    IF Len(outcome) = 2 /\ outcome[1] \in VERDICT_KINDS /\ outcome[2] # ""
    THEN [kind |-> outcome[1], action |-> strip_inner(outcome[2])]
    ELSE None

\* A faulty _verdicts_conflict that takes any two different kinds for a conflict
verdicts_conflict_any_kinds(a, b) ==
    a.action = b.action /\ a.kind # b.kind

verdicts_conflict(a, b) ==
    a.action = b.action /\ {a.kind, b.kind} \in CONFLICTING_KINDS

\* A faulty _specificity_resolves that compares with <= where the code has <
specificity_resolves_not_strict(r1, r2) ==
    r1.premises \subseteq r2.premises \/ r2.premises \subseteq r1.premises

specificity_resolves(r1, r2) ==
    \/ (r1.premises \subseteq r2.premises /\ r1.premises # r2.premises)
    \/ (r2.premises \subseteq r1.premises /\ r2.premises # r1.premises)

\* detect_conflicts: the warnings, as a set; i < j are the positions in `rules` of
\* the two rules of a warning (the list holds them in the order of <<i, j>>)
detect_conflicts(rules) ==
    LET Parses(k) == parse_verdict(rules[k].expected_outcome) # None
        Warning(i, j) ==
            LET v1 == parse_verdict(rules[i].expected_outcome)
                v2 == parse_verdict(rules[j].expected_outcome)
            IN [i |-> i, j |-> j,
                rule_a_id |-> rules[i].edge_id,
                rule_b_id |-> rules[j].edge_id,
                action |-> v1.action,
                verdict_a |-> v1.kind,
                verdict_b |-> v2.kind,
                resolvable |-> specificity_resolves(rules[i], rules[j])]
    IN { Warning(p[1], p[2]) :
            p \in { q \in (1..Len(rules)) \X (1..Len(rules)) :
                      /\ q[1] < q[2]
                      /\ Parses(q[1])
                      /\ Parses(q[2])
                      /\ verdicts_conflict(parse_verdict(rules[q[1]].expected_outcome),
                                           parse_verdict(rules[q[2]].expected_outcome)) } }

\* ------------------------------------------------------------------------
\* api/main.py: validation against the token registry
\* ------------------------------------------------------------------------
REGISTRY ==
    [facts |-> {"Dx.Preeclampsia", "DxAttr.Preeclampsia.Severe", "Ctx.GA_>=34w",
                "Ctx.GA_<34w", "Ctx.GA_>=28w", "Ctx.MaternalAge_<35y",
                "Dx.PlacentalAbruption", "Dx.HypertensiveDisorder", "Dx.FetalDemise"},
     actions |-> {"Action.ImmediateDelivery", "Action.ExpeditedDelivery",
                  "Action.ExpectantManagement"},
     verdicts |-> {"Obligated", "Allowed", "Disallowed", "Rejected"}]

\* _validate_action_token / _validate_fact_tokens / _validate_outcome_token: TRUE iff accepted
validate_action_token(action) == action \in REGISTRY.actions

validate_fact_tokens(facts) == \A f \in facts : f \in REGISTRY.facts

get_valid_outcomes == {<<v, a>> : v \in REGISTRY.verdicts, a \in REGISTRY.actions}

validate_outcome_token(outcome) == outcome \in get_valid_outcomes

\* ------------------------------------------------------------------------
\* Requests offered by callers
\* ------------------------------------------------------------------------
USER == "alice"
ANONYMOUS == "anonymous"

InputRules ==
    { Hyperedge(ID_NEW, {"Dx.FetalDemise"}, <<"Rejected", "Action.ImmediateDelivery">>, ""),
      Hyperedge(ID_NEW, {"Dx.Preeclampsia"}, <<"Rejected", "Action.ImmediateDelivery">>, ""),
      Hyperedge(ID_OBLIGATE_EXPEDITED, {"Dx.FetalDemise"},
                <<"Rejected", "Action.ImmediateDelivery">>, ""),
      Hyperedge(ID_NEW, {"Dx.FetalDemise"}, <<"RiskMarker", "HighRiskTrajectory">>, "") }

InputRuleIds == {ID_OBLIGATE_IMMEDIATE, ID_NEW}

InputVersion == <<" ", "v", " ", "2", ".">>

InputRulesets ==
    { << Hyperedge(ID_NEW, {"Dx.FetalDemise"}, <<"RiskMarker", "HighRiskTrajectory">>, "") >>,
      << Hyperedge(ID_OBLIGATE_IMMEDIATE, {"Dx.Preeclampsia"},
                   <<"Obligated", "Action.ImmediateDelivery">>, ""),
         Hyperedge(ID_NEW, {"Dx.FetalDemise"}, <<"Rejected", "Action.ImmediateDelivery">>, "") >>,
      << Hyperedge(ID_NEW, {"Dx.FetalDemise"}, <<"Rejected", "Action.ImmediateDelivery">>, ""),
         Hyperedge(ID_NEW, {"Dx.Preeclampsia"}, <<"Rejected", "Action.ImmediateDelivery">>, "") >> }

InputPairs ==
    { <<"Action.ExpectantManagement", "Action.ImmediateDelivery">>,
      <<"Action.ImmediateDelivery", "Action.ExpeditedDelivery">>,
      <<"Action.ImmediateDelivery", "Action.Unknown">> }

InputInfeasibility ==
    { [action |-> "Action.ExpeditedDelivery", premises |-> <<"Dx.FetalDemise">>],
      [action |-> "Action.ExpeditedDelivery", premises |-> <<"Dx.Unknown">>] }

InputFactGroups ==
    { <<"Ctx.GA_>=34w", "Ctx.GA_<34w">>,
      <<"Ctx.GA_>=28w", "Ctx.GA_<34w">> }

InputIndexes == (0 - 1)..MaxIndex

\* ------------------------------------------------------------------------
\* api/main.py: the draft handlers.  Each returns the store afterwards and
\* the HTTP status of the response.
\* ------------------------------------------------------------------------
Response(store, status) == [store |-> store, status |-> status]

\* _draft_to_active_response: get_draft, build_candidate_runtime_bundle, detect_conflicts
draft_to_active_response(store) ==
    LET built == build_candidate_runtime_bundle(store)
    IN [store |-> built.store,
        manifest |-> store.draft.manifest,
        ruleset |-> store.draft.proposals,
        conflictWarnings |-> detect_conflicts(built.bundle.ruleset)]

\* On success the handler answers with _draft_to_active_response.
Answer(r, error_status) ==
    IF r.raised # "" THEN Response(r.store, error_status)
    ELSE Response(draft_to_active_response(r.store).store, 200)

get_active_kernel_artifacts(store) ==
    Response(draft_to_active_response(store).store, 200)

replace_active_ruleset(store, now, payload) ==
    IF Cardinality(EdgeIds(payload.ruleset)) # Len(payload.ruleset)
    THEN Response(store, 400)
    ELSE Answer(replace_draft_proposals(store, now, payload.rulesetVersion,
                                        payload.updatedBy, payload.changeSummary,
                                        payload.ruleset), 500)

api_add_rule(store, now, edge, createdBy) ==
    IF ~validate_outcome_token(edge.expected_outcome) \/ ~validate_fact_tokens(edge.premises)
    THEN Response(store, 422)
    ELSE Answer(add_rule(store, now, edge, createdBy), 409)

api_update_rule(store, now, rule_id, edge, createdBy) ==
    IF ~validate_outcome_token(edge.expected_outcome) \/ ~validate_fact_tokens(edge.premises)
    THEN Response(store, 422)
    ELSE Answer(update_rule(store, now, rule_id, edge, createdBy), 404)

api_delete_rule(store, now, rule_id) ==
    Answer(remove_rule(store, now, rule_id, ANONYMOUS), 404)

api_add_incompatibility_pair(store, now, a, b, createdBy) ==
    IF ~validate_action_token(a) \/ ~validate_action_token(b)
    THEN Response(store, 422)
    ELSE Answer(add_incompatibility_pair(store, now, a, b, createdBy), 409)

api_update_incompatibility_pair(store, now, index, a, b, createdBy) ==
    IF ~validate_action_token(a) \/ ~validate_action_token(b)
    THEN Response(store, 422)
    ELSE Answer(update_incompatibility_pair(store, now, index, a, b, createdBy), 404)

api_delete_incompatibility_pair(store, now, index) ==
    Answer(remove_incompatibility_pair(store, now, index, ANONYMOUS), 404)

api_add_infeasibility_entry(store, now, action, premises, createdBy) ==
    IF ~validate_action_token(action) \/ ~validate_fact_tokens(Range(premises))
    THEN Response(store, 422)
    ELSE Answer(add_infeasibility_entry(store, now, action, premises, createdBy), 409)

api_update_infeasibility_entry(store, now, index, action, premises, createdBy) ==
    IF ~validate_action_token(action) \/ ~validate_fact_tokens(Range(premises))
    THEN Response(store, 422)
    ELSE Answer(update_infeasibility_entry(store, now, index, action, premises, createdBy), 404)

api_delete_infeasibility_entry(store, now, index) ==
    Answer(remove_infeasibility_entry(store, now, index, ANONYMOUS), 404)

api_add_fact_exclusion(store, now, facts, createdBy) ==
    IF ~validate_fact_tokens(Range(facts))
    THEN Response(store, 422)
    ELSE Answer(add_fact_exclusion(store, now, facts, createdBy), 409)

api_delete_fact_exclusion(store, now, index) ==
    Answer(remove_fact_exclusion(store, now, index, ANONYMOUS), 404)

\* ------------------------------------------------------------------------
\* api/main.py: publish_active_kernel_snapshot
\* ------------------------------------------------------------------------
\* A string is written as the sequence of its tokens: a word (a run of letters and
\* digits), one of the characters "-", ".", "_", a blank " ", or another character.
PUNCTUATION == {"-", ".", "_"}

UNSAFE_CHARS == {" ", "/", ":"}

WHITESPACE == {" "}

RECURSIVE LStrip(_, _)
LStrip(str, chars) ==
    IF str # << >> /\ Head(str) \in chars THEN LStrip(Tail(str), chars) ELSE str

RECURSIVE RStrip(_, _)
RStrip(str, chars) ==
    IF str # << >> /\ str[Len(str)] \in chars
    THEN RStrip(SubSeq(str, 1, Len(str) - 1), chars) ELSE str

Strip(str, chars) == RStrip(LStrip(str, chars), chars)

\* re.sub(r"[^a-zA-Z0-9._-]+", "-", str): each run of other characters becomes one "-"
RECURSIVE SubUnsafe(_, _)
SubUnsafe(str, in_run) ==
    IF str = << >> THEN << >>
    ELSE IF Head(str) \notin UNSAFE_CHARS
         THEN <<Head(str)>> \o SubUnsafe(Tail(str), FALSE)
         ELSE IF in_run THEN SubUnsafe(Tail(str), TRUE)
              ELSE <<"-">> \o SubUnsafe(Tail(str), TRUE)

UNTITLED == <<"untitled">>

\* _sanitize_dir_component
sanitize_dir_component(value) ==
    LET trimmed == Strip(value, WHITESPACE)
    IN IF trimmed = << >> THEN UNTITLED
       ELSE LET safe == Strip(SubUnsafe(trimmed, FALSE), PUNCTUATION)
            IN IF safe = << >> THEN UNTITLED ELSE safe

\* sorted(ruleset, key=lambda item: item.edge_id)
RECURSIVE sorted_by_edge_id(_)
sorted_by_edge_id(rules) ==
    IF rules = << >> THEN << >>
    ELSE LET k == CHOOSE i \in 1..Len(rules) :
                      /\ \A j \in 1..Len(rules) :
                            EdgeIdRank(rules[i].edge_id) <= EdgeIdRank(rules[j].edge_id)
                      /\ \A j \in 1..(i - 1) :
                            EdgeIdRank(rules[j].edge_id) # EdgeIdRank(rules[i].edge_id)
         IN <<rules[k]>> \o sorted_by_edge_id(PopAt(rules, k - 1))

\* Lines 733-775: the rules, actions and facts of ruleset.json.  An edge is
\* skipped when verdict_pattern does not match or the stripped action is empty.
\* (The "source" text of a rule is left out.)
ruleset_payload(bundle) ==
    LET edges == sorted_by_edge_id(bundle.ruleset)
        Kept(edge) == /\ Len(edge.expected_outcome) = 2
                      /\ edge.expected_outcome[1] \in VERDICT_KINDS
                      /\ edge.expected_outcome[2] # ""
                      /\ strip_inner(edge.expected_outcome[2]) # ""
        Rule(edge) == [id |-> edge.edge_id,
                       premises |-> edge.premises,
                       out |-> [kind |-> edge.expected_outcome[1],
                                action |-> strip_inner(edge.expected_outcome[2])]]
        kept == SelectSeq(edges, Kept)
        entries == bundle.infeasibility
    IN [rules |-> [i \in 1..Len(kept) |-> Rule(kept[i])],
        actions |-> {strip_inner(kept[i].expected_outcome[2]) : i \in 1..Len(kept)}
                       \cup {entries[i].action : i \in 1..Len(entries)},
        facts |-> UNION ({kept[i].premises : i \in 1..Len(kept)}
                           \cup {Range(entries[i].premises) : i \in 1..Len(entries)})]

\* The environment of one publish: the file system and the external tools.
FsOutcomes == {"ok", "mkdir_oserror", "write_oserror"}
ToolOutcomes == {"exit0", "nonzero", "timeout", "missing"}

PublishPayloads == [verify : BOOLEAN, verifyMode : {"certificate", "cohere"}]

unresolvable_conflicts(ruleset) == {w \in detect_conflicts(ruleset) : ~w.resolvable}

\* A faulty publish, which creates the snapshot directory before it screens the
\* candidate for unresolvable conflicts.
publish_serialize_screens_late(bundle, unresolvable, dirs, now, payload, fs, cert_written) ==
    LET snapshot_dir == << sanitize_dir_component(bundle.manifest.ruleset_version),
                           bundle.manifest.revision, now >>
        Stop(status, ds) == [status |-> status, snapshots |-> ds,
                             snapshot_dir |-> NoDir, cert_generated |-> FALSE]
    IN IF snapshot_dir \in dirs THEN Stop(409, dirs)
       ELSE IF fs = "mkdir_oserror" THEN Stop(500, dirs)
       ELSE IF unresolvable # {} THEN Stop(409, dirs \cup {snapshot_dir})
       ELSE IF fs = "write_oserror" THEN Stop(500, dirs \cup {snapshot_dir})
       ELSE [status |-> 0, snapshots |-> dirs \cup {snapshot_dir},
             snapshot_dir |-> snapshot_dir,
             cert_generated |-> payload.verifyMode = "certificate" /\ cert_written]

\* A faulty publish, which writes into a snapshot directory that already exists.
publish_serialize_overwrites(bundle, unresolvable, dirs, now, payload, fs, cert_written) ==
    LET snapshot_dir == << sanitize_dir_component(bundle.manifest.ruleset_version),
                           bundle.manifest.revision, now >>
        Stop(status, ds) == [status |-> status, snapshots |-> ds,
                             snapshot_dir |-> NoDir, cert_generated |-> FALSE]
    IN IF unresolvable # {} THEN Stop(409, dirs)
       ELSE IF fs = "mkdir_oserror" THEN Stop(500, dirs)
       ELSE IF fs = "write_oserror" THEN Stop(500, dirs \cup {snapshot_dir})
       ELSE [status |-> 0, snapshots |-> dirs \cup {snapshot_dir},
             snapshot_dir |-> snapshot_dir,
             cert_generated |-> payload.verifyMode = "certificate" /\ cert_written]

\* Lines 702-837: conflict refusal, snapshot directory, snapshot files, certificate.
\* `unresolvable` is the list computed at line 701.  status 0: the handler goes on
\* to verification.
publish_serialize(bundle, unresolvable, dirs, now, payload, fs, cert_written) ==
    LET snapshot_dir == << sanitize_dir_component(bundle.manifest.ruleset_version),
                           bundle.manifest.revision, now >>
        use_certificate == payload.verifyMode = "certificate"
        Stop(status, ds) == [status |-> status, snapshots |-> ds,
                             snapshot_dir |-> NoDir, cert_generated |-> FALSE]
    IN IF unresolvable # {} THEN Stop(409, dirs)
       ELSE IF snapshot_dir \in dirs THEN Stop(409, dirs)
       ELSE IF fs = "mkdir_oserror" THEN Stop(500, dirs)
       ELSE IF fs = "write_oserror" THEN Stop(500, dirs \cup {snapshot_dir})
       ELSE [status |-> 0, snapshots |-> dirs \cup {snapshot_dir},
             snapshot_dir |-> snapshot_dir,
             cert_generated |-> use_certificate /\ cert_written]

\* A faulty publish, which promotes once the certificate was checked, whatever
\* the verification reported.
publish_verify_promotes_unverified(store, now, payload, draft, snapshot_dir, cert_generated, tool) ==
    LET use_certificate == payload.verifyMode = "certificate"
        Reply(st, status, verify_result, cert_verify, promoted) ==
            [store |-> st, status |-> status, verifyResult |-> verify_result,
             certificateVerifyResult |-> cert_verify, runtimePromoted |-> promoted,
             certificateGenerated |-> cert_generated]
    IN IF payload.verify /\ ~use_certificate
       THEN IF tool = "missing" THEN Reply(store, 500, "None", "None", FALSE)
            ELSE IF tool = "timeout" THEN Reply(store, 504, "None", "None", FALSE)
            ELSE Reply(store, 200, IF tool = "exit0" THEN "ok" ELSE "failed", "None", FALSE)
       ELSE IF payload.verify /\ use_certificate /\ cert_generated
       THEN Reply(promote_candidate_to_runtime(store, now, draft.manifest.updated_by,
                                               snapshot_dir).store,
                  200, "None", IF tool = "exit0" THEN "ok" ELSE "failed", TRUE)
       ELSE Reply(store, 200, "None", "None", FALSE)

\* Lines 839-876: verification, promotion and the response.
\* A faulty publish, which records a failed certificate check in the session's
\* verification status.
publish_verify_records_failure(store, now, payload, draft, snapshot_dir, cert_generated, tool) ==
    LET Reply(st, status, verify_result, cert_verify, promoted) ==
            [store |-> st, status |-> status, verifyResult |-> verify_result,
             certificateVerifyResult |-> cert_verify, runtimePromoted |-> promoted,
             certificateGenerated |-> cert_generated]
        failed == [store EXCEPT !.runtime_verification =
                      KernelVerificationStatus("failed", now, draft.manifest.updated_by, snapshot_dir)]
    IN IF payload.verify /\ payload.verifyMode # "certificate"
       THEN IF tool = "missing" THEN Reply(store, 500, "None", "None", FALSE)
            ELSE IF tool = "timeout" THEN Reply(store, 504, "None", "None", FALSE)
            ELSE Reply(store, 200, IF tool = "exit0" THEN "ok" ELSE "failed", "None", FALSE)
       ELSE IF payload.verify /\ cert_generated
       THEN IF tool = "exit0"
            THEN Reply(promote_candidate_to_runtime(store, now, draft.manifest.updated_by,
                                                    snapshot_dir).store,
                       200, "None", "ok", TRUE)
            ELSE Reply(failed, 200, "None", "failed", FALSE)
       ELSE Reply(store, 200, "None", "None", FALSE)

publish_verify(store, now, payload, draft, snapshot_dir, cert_generated, tool) ==
    LET use_certificate == payload.verifyMode = "certificate"
        Reply(st, status, verify_result, cert_verify, promoted) ==
            [store |-> st, status |-> status, verifyResult |-> verify_result,
             certificateVerifyResult |-> cert_verify, runtimePromoted |-> promoted,
             certificateGenerated |-> cert_generated]
    IN IF payload.verify /\ ~use_certificate
       THEN IF tool = "missing" THEN Reply(store, 500, "None", "None", FALSE)
            ELSE IF tool = "timeout" THEN Reply(store, 504, "None", "None", FALSE)
            ELSE Reply(store, 200, IF tool = "exit0" THEN "ok" ELSE "failed", "None", FALSE)
       ELSE IF payload.verify /\ use_certificate /\ cert_generated
       THEN IF tool = "exit0"
            THEN Reply(promote_candidate_to_runtime(store, now, draft.manifest.updated_by,
                                                    snapshot_dir).store,
                       200, "None", "ok", TRUE)
            ELSE Reply(store, 200, "None", "failed", FALSE)
       ELSE Reply(store, 200, "None", "None", FALSE)

\* ------------------------------------------------------------------------
\* Retrieval (api/main.py, retrieve_hypergraph)
\* ------------------------------------------------------------------------
get_runtime_verification(store) == store.runtime_verification

\* A faulty get_runtime_ruleset that hands out the candidate (runtime merged with the draft)
get_runtime_ruleset_with_draft(store) == build_candidate_unlocked(store).ruleset

get_runtime_ruleset(store) ==
    IF store.runtime_bundle # None THEN store.runtime_bundle.ruleset ELSE << >>

\* Facts and proposed action of the retrieval requests explored; "" is an absent token
InputFacts ==
    { {"Dx.FetalDemise"},
      {"Dx.PlacentalAbruption", "Dx.FetalDemise", "Dx.Preeclampsia"},
      {"Dx.HypertensiveDisorder", "Ctx.GA_>=28w"} }
InputTokens == {"", "Action.ExpeditedDelivery"}

\* lines 421-434: one candidate edge per rule; sorted(...) of a set is kept as the set
HypergraphCandidateEdgeResponse(edge, facts) ==
    [edgeId |-> edge.edge_id,
     premises |-> edge.premises,
     expectedOutcome |-> edge.expected_outcome,
     note |-> edge.note,
     isMatched |-> Cardinality(edge.premises \ facts) = 0,
     matchingPremises |-> edge.premises \cap facts,
     missingPremises |-> edge.premises \ facts]

\* lines 440-468: the verification summary for a proposed action token
HypergraphVerificationSummaryResponse(matched_edges, token) ==
    LET obligated_support ==
            {e.edgeId : e \in {m \in matched_edges : m.expectedOutcome = <<"Obligated", token>>}}
        allowed_support ==
            {e.edgeId : e \in {m \in matched_edges : m.expectedOutcome = <<"Allowed", token>>}}
        Summary(supported, level, ids) ==
            [proposedActionToken |-> token, isSupported |-> supported,
             supportLevel |-> level, supportingEdgeIds |-> ids]
    IN IF token = "" THEN None
       ELSE IF obligated_support # {} THEN Summary(TRUE, "obligated", obligated_support)
       ELSE IF allowed_support # {} THEN Summary(TRUE, "allowed", allowed_support)
       ELSE Summary(FALSE, "unsupported", {})

\* lines 418-476: the response computed after the status test has passed
HypergraphRetrieveResponse(store, facts, token) ==
    LET ruleset == get_runtime_ruleset(store)
        candidate_edges ==
            [i \in 1..Len(ruleset) |-> HypergraphCandidateEdgeResponse(ruleset[i], facts)]
        matched_edges == {e \in Range(candidate_edges) : e.isMatched}
    IN [status |-> 200,
        candidateEdgeCount |-> Len(candidate_edges),
        matchedEdgeCount |-> Cardinality({i \in 1..Len(candidate_edges) : candidate_edges[i].isMatched}),
        derivedOutcomes |-> {e.expectedOutcome : e \in matched_edges},
        candidateEdges |-> candidate_edges,
        verification |-> HypergraphVerificationSummaryResponse(matched_edges, token)]

\* ------------------------------------------------------------------------
\* State
\* ------------------------------------------------------------------------
\* The publish requests that can be in flight together with the draft handlers
Publishers == {"p1"}

VARIABLES
    store,       \* the session's InMemoryKernelArtifactStore
    clock,       \* wall clock (datetime.now); the requests explored arrive within one second
    snapshots,   \* snapshot directories that exist under the session's artifact dir
    publish,     \* per in-flight publish request: its position and local variables
    retrieve,    \* the in-flight retrieval request: its position and local variables
    sessions,    \* SessionManager._sessions: session id -> store object (0: no entry)
    heap,        \* the store objects created so far, each with its lock and last access
    manager_lock,\* the holder of SessionManager._lock
    monotonic,   \* time.monotonic()
    threads,     \* per worker thread: the request it runs and its position
    started,     \* requests started on the session manager so far
    router,      \* a ProtocolRouter: _protocols and _condition_index
    request,     \* the request (or handler step) executed by the last step
    response     \* its response; status 0 while the handler is still running

manager_vars == <<sessions, heap, manager_lock, monotonic, threads, started>>

vars == <<store, clock, snapshots, publish, retrieve, request, response, manager_vars, router>>

Idle == [pc |-> "idle"]

\* ------------------------------------------------------------------------
\* Session manager (kernel/store.py, SessionManager) and its worker threads
\* ------------------------------------------------------------------------
SessionIds == {"s1", "s2"}
Threads == {"t1", "t2"}
NoThread == "none"
NoStore == 0

\* SessionManager.__init__, and no request running
ManagerInit ==
    /\ sessions = [sid \in SessionIds |-> NoStore]
    /\ heap = << >>
    /\ manager_lock = NoThread
    /\ monotonic = 0
    /\ threads = [t \in Threads |-> Idle]
    /\ started = 0

\* ------------------------------------------------------------------------
\* protocols/protocol.py and protocols/router.py
\* ------------------------------------------------------------------------
Protocol(id, name, conditions) == [id |-> id, name |-> name, conditions |-> conditions]

\* Protocol.__post_init__: the ValueError it raises, "" when it accepts
post_init(data) ==
    IF data.id = "" \/ data.name = "" \/ data.conditions = {} THEN "ValueError" ELSE ""

\* Protocol.matches
matches(protocol, patient_conditions) == protocol.conditions \subseteq patient_conditions

\* Ascending order of the protocol ids as Python compares strings
ProtocolIdOrder == <<"a", "ab", "z">>

ProtocolIdRank(id) == CHOOSE i \in 1..Len(ProtocolIdOrder) : ProtocolIdOrder[i] = id

\* What a router method leaves and gives: the router afterwards, the exception
\* raised ("" for none) and the value returned
RouterResult(r, raised, result) == [router |-> r, raised |-> raised, result |-> result]

ProtocolRouter == [protocols |-> EmptyDict, condition_index |-> EmptyDict]

add_protocol(r, protocol) ==
    IF protocol.id \in DOMAIN r.protocols
    THEN RouterResult(r, "ValueError", None)
    ELSE RouterResult(
            [protocols |-> DictSet(r.protocols, protocol.id, protocol),
             condition_index |->
                [c \in (DOMAIN r.condition_index) \cup protocol.conditions |->
                    (IF c \in DOMAIN r.condition_index THEN r.condition_index[c] ELSE {})
                      \cup (IF c \in protocol.conditions THEN {protocol.id} ELSE {})]],
            "", None)

\* A faulty remove_protocol, which deletes the index entry of each condition of
\* the protocol, whatever other protocols it lists
remove_protocol_deletes_entries(r, protocol_id) ==
    IF protocol_id \notin DOMAIN r.protocols
    THEN RouterResult(r, "", None)
    ELSE LET protocol == r.protocols[protocol_id]
         IN RouterResult(
               [protocols |-> DictPop(r.protocols, protocol_id),
                condition_index |->
                   [c \in (DOMAIN r.condition_index) \ protocol.conditions |->
                       r.condition_index[c]]],
               "", protocol)

remove_protocol(r, protocol_id) ==
    IF protocol_id \notin DOMAIN r.protocols
    THEN RouterResult(r, "", None)
    ELSE LET protocol == r.protocols[protocol_id]
             Left(c) == IF c \in protocol.conditions
                        THEN r.condition_index[c] \ {protocol_id}
                        ELSE r.condition_index[c]
         IN RouterResult(
               [protocols |-> DictPop(r.protocols, protocol_id),
                condition_index |->
                   [c \in {d \in DOMAIN r.condition_index : Left(d) # {}} |-> Left(c)]],
               "", protocol)

\* update_protocol.  `updates` is given by its entries with a value (`values`)
\* and the keys whose value is None (`nones`), which the method leaves out.
update_protocol(r, protocol_id, updates) ==
    IF protocol_id \notin DOMAIN r.protocols
    THEN RouterResult(r, "", None)
    ELSE LET existing == r.protocols[protocol_id]
             Field(k) == IF k \in DOMAIN updates.values THEN updates.values[k]
                         ELSE existing[k]
             protocol_data == Protocol(Field("id"), Field("name"), Field("conditions"))
             removed == remove_protocol(r, protocol_id).router
         IN IF post_init(protocol_data) # ""
            THEN RouterResult(removed, post_init(protocol_data), None)
            ELSE LET added == add_protocol(removed, protocol_data)
                 IN IF added.raised # ""
                    THEN RouterResult(removed, added.raised, None)
                    ELSE RouterResult(added.router, "", protocol_data)

\* activated.sort(key=lambda p: (-p.condition_count, p.id))
RECURSIVE sorted_by_specificity(_)
sorted_by_specificity(activated) ==
    IF activated = {} THEN << >>
    ELSE LET Before(p, q) ==
                 \/ Cardinality(p.conditions) > Cardinality(q.conditions)
                 \/ /\ Cardinality(p.conditions) = Cardinality(q.conditions)
                    /\ ProtocolIdRank(p.id) <= ProtocolIdRank(q.id)
             first == CHOOSE p \in activated : \A q \in activated : Before(p, q)
         IN <<first>> \o sorted_by_specificity(activated \ {first})

\* match: the candidates are read from the condition index, then looked up
match(r, patient_conditions) ==
    LET candidate_ids ==
            UNION {r.condition_index[c] : c \in patient_conditions \cap DOMAIN r.condition_index}
    IN IF \E id \in candidate_ids : id \notin DOMAIN r.protocols
       THEN RouterResult(r, "KeyError", None)
       ELSE RouterResult(r, "",
               sorted_by_specificity({r.protocols[id] :
                   id \in {c \in candidate_ids : matches(r.protocols[c], patient_conditions)}}))

RouterInit == router = ProtocolRouter

Init ==
    /\ clock = 0
    /\ store = NewStore(0)
    /\ snapshots = {}
    /\ publish = [p \in Publishers |-> Idle]
    /\ retrieve = Idle
    /\ ManagerInit
    /\ RouterInit
    /\ request = [handler |-> "init"]
    /\ response = [status |-> 0]

\* Draft requests are explored while the draft revision is below MaxRevision.
CanMutate == store.draft.manifest.revision < MaxRevision

\* One draft handler, run to completion: `r` is what the handler returns.
Handled(req, r) ==
    /\ \E res \in {r} :
          /\ store' = res.store
          /\ response' = [status |-> res.status]
    /\ request' = req
    /\ UNCHANGED <<clock, snapshots, publish, retrieve, manager_vars, router>>

GetActive ==
    Handled([handler |-> "get_active_kernel_artifacts"], get_active_kernel_artifacts(store))

ReplaceRuleset ==
    /\ CanMutate
    /\ \E rules \in InputRulesets :
          LET payload == [rulesetVersion |-> InputVersion, updatedBy |-> USER,
                          changeSummary |-> <<"replace">>, ruleset |-> rules]
          IN Handled([handler |-> "replace_active_ruleset", ruleset |-> rules],
                     replace_active_ruleset(store, clock, payload))

AddRule ==
    /\ CanMutate
    /\ \E edge \in InputRules :
          Handled([handler |-> "add_rule", edge |-> edge],
                  api_add_rule(store, clock, edge, USER))

UpdateRule ==
    /\ CanMutate
    /\ \E rule_id \in InputRuleIds, edge \in InputRules :
          Handled([handler |-> "update_rule", rule_id |-> rule_id, edge |-> edge],
                  api_update_rule(store, clock, rule_id, edge, USER))

DeleteRule ==
    /\ CanMutate
    /\ \E rule_id \in InputRuleIds :
          Handled([handler |-> "delete_rule", rule_id |-> rule_id],
                  api_delete_rule(store, clock, rule_id))

AddIncompatibilityPair ==
    /\ CanMutate
    /\ \E pair \in InputPairs :
          Handled([handler |-> "add_incompatibility_pair", a |-> pair[1], b |-> pair[2]],
                  api_add_incompatibility_pair(store, clock, pair[1], pair[2], USER))

UpdateIncompatibilityPair ==
    /\ CanMutate
    /\ \E index \in InputIndexes, pair \in InputPairs :
          Handled([handler |-> "update_incompatibility_pair", index |-> index,
                   a |-> pair[1], b |-> pair[2]],
                  api_update_incompatibility_pair(store, clock, index, pair[1], pair[2], USER))

DeleteIncompatibilityPair ==
    /\ CanMutate
    /\ \E index \in InputIndexes :
          Handled([handler |-> "delete_incompatibility_pair", index |-> index],
                  api_delete_incompatibility_pair(store, clock, index))

AddInfeasibilityEntry ==
    /\ CanMutate
    /\ \E e \in InputInfeasibility :
          Handled([handler |-> "add_infeasibility_entry", entry |-> e],
                  api_add_infeasibility_entry(store, clock, e.action, e.premises, USER))

UpdateInfeasibilityEntry ==
    /\ CanMutate
    /\ \E index \in InputIndexes, e \in InputInfeasibility :
          Handled([handler |-> "update_infeasibility_entry", index |-> index, entry |-> e],
                  api_update_infeasibility_entry(store, clock, index, e.action, e.premises, USER))

DeleteInfeasibilityEntry ==
    /\ CanMutate
    /\ \E index \in InputIndexes :
          Handled([handler |-> "delete_infeasibility_entry", index |-> index],
                  api_delete_infeasibility_entry(store, clock, index))

AddFactExclusion ==
    /\ CanMutate
    /\ \E facts \in InputFactGroups :
          Handled([handler |-> "add_fact_exclusion", facts |-> facts],
                  api_add_fact_exclusion(store, clock, facts, USER))

DeleteFactExclusion ==
    /\ CanMutate
    /\ \E index \in InputIndexes :
          Handled([handler |-> "delete_fact_exclusion", index |-> index],
                  api_delete_fact_exclusion(store, clock, index))

\* The outcomes of the environment that a publish with this payload can observe.
CertOutcomes(payload) ==
    IF payload.verifyMode = "certificate" THEN BOOLEAN ELSE {FALSE}

ToolsRun(payload, cert_generated) ==
    IF payload.verify /\ (payload.verifyMode # "certificate" \/ cert_generated)
    THEN ToolOutcomes ELSE {"exit0"}

\* -- publish: one action per access to the store or the file system --------
PublishRequest(p, step, payload) ==
    [handler |-> "publish", step |-> step, publisher |-> p, payload |-> payload]

\* line 698: draft = store.get_draft()
PublishGetDraft(p) ==
    /\ publish[p].pc = "idle"
    /\ \E payload \in PublishPayloads :
          /\ publish' = [publish EXCEPT ![p] =
                            [pc |-> "get_draft", payload |-> payload, draft |-> store.draft]]
          /\ request' = PublishRequest(p, "get_draft", payload)
    /\ response' = [status |-> 0]
    /\ UNCHANGED <<store, clock, snapshots, retrieve, manager_vars, router>>

\* line 699: bundle = store.build_candidate_runtime_bundle()
PublishBuildCandidate(p) ==
    /\ publish[p].pc = "get_draft"
    /\ \E built \in {build_candidate_runtime_bundle(store)} :
          /\ store' = built.store
          /\ publish' = [publish EXCEPT ![p] =
                            [pc |-> "build_candidate", payload |-> publish[p].payload,
                             draft |-> publish[p].draft, bundle |-> built.bundle]]
    /\ request' = PublishRequest(p, "build_candidate", publish[p].payload)
    /\ response' = [status |-> 0]
    /\ UNCHANGED <<clock, snapshots, retrieve, manager_vars, router>>

\* lines 701-837
PublishSerialize(p) ==
    /\ publish[p].pc = "build_candidate"
    /\ \E unresolvable \in {unresolvable_conflicts(publish[p].bundle.ruleset)} :
       \E fs \in FsOutcomes, cert_written \in CertOutcomes(publish[p].payload) :
        \E r \in {publish_serialize(publish[p].bundle, unresolvable, snapshots, clock,
                                     publish[p].payload, fs, cert_written)} :
             /\ snapshots' = r.snapshots
             /\ response' = [status |-> r.status]
             /\ publish' = [publish EXCEPT ![p] =
                    IF r.status # 0 THEN Idle
                    ELSE [pc |-> "serialize", payload |-> publish[p].payload,
                          draft |-> publish[p].draft, bundle |-> publish[p].bundle,
                          snapshot_dir |-> r.snapshot_dir,
                          cert_generated |-> r.cert_generated]]
    /\ request' = PublishRequest(p, "serialize", publish[p].payload)
    /\ UNCHANGED <<store, clock, retrieve, manager_vars, router>>

\* lines 839-876
PublishVerify(p) ==
    /\ publish[p].pc = "serialize"
    /\ \E tool \in ToolsRun(publish[p].payload, publish[p].cert_generated) :
        \E r \in {publish_verify(store, clock, publish[p].payload, publish[p].draft,
                                  publish[p].snapshot_dir, publish[p].cert_generated, tool)} :
             /\ store' = r.store
             /\ response' = [status |-> r.status,
                             verifyResult |-> r.verifyResult,
                             certificateVerifyResult |-> r.certificateVerifyResult,
                             certificateGenerated |-> r.certificateGenerated,
                             runtimePromoted |-> r.runtimePromoted]
    /\ request' = PublishRequest(p, "verify", publish[p].payload)
    /\ publish' = [publish EXCEPT ![p] = Idle]
    /\ UNCHANGED <<clock, snapshots, retrieve, manager_vars, router>>

\* A publish request that runs to completion with no other request in between.
PublishSnapshot ==
    /\ \A p \in Publishers : publish[p].pc = "idle"
    /\ \E built \in {build_candidate_runtime_bundle(store)} :
       \E unresolvable \in {unresolvable_conflicts(built.bundle.ruleset)} :
        \E payload \in PublishPayloads, fs \in FsOutcomes :
         \E cert_written \in CertOutcomes(payload) :
         \E ser \in {publish_serialize(built.bundle, unresolvable, snapshots, clock,
                                       payload, fs, cert_written)} :
          /\ snapshots' = ser.snapshots
          /\ request' = [handler |-> "publish", step |-> "all", payload |-> payload]
          /\ IF ser.status # 0
             THEN /\ store' = built.store
                  /\ response' = [status |-> ser.status]
             ELSE \E tool \in ToolsRun(payload, ser.cert_generated) :
                   \E ver \in {publish_verify(built.store, clock, payload, store.draft,
                                              ser.snapshot_dir, ser.cert_generated, tool)} :
                      /\ store' = ver.store
                      /\ response' = [status |-> ver.status,
                                      verifyResult |-> ver.verifyResult,
                                      certificateVerifyResult |-> ver.certificateVerifyResult,
                                      certificateGenerated |-> ver.certificateGenerated,
                                      runtimePromoted |-> ver.runtimePromoted]
    /\ UNCHANGED <<clock, publish, retrieve, manager_vars, router>>

RetrieveRequest(step, facts, token) ==
    [handler |-> "retrieve_hypergraph", step |-> step, facts |-> facts,
     proposedActionToken |-> token]

\* lines 408-416: the status test; a session that is not verified is answered 412
RetrieveCheck ==
    /\ retrieve.pc = "idle"
    /\ \E facts \in InputFacts, token \in InputTokens :
          /\ request' = RetrieveRequest("check", facts, token)
          /\ IF get_runtime_verification(store).status # "verified"
             THEN /\ response' = [status |-> 412]
                  /\ retrieve' = Idle
             ELSE /\ response' = [status |-> 0]
                  /\ retrieve' = [pc |-> "checked", facts |-> facts, token |-> token]
    /\ UNCHANGED <<store, clock, snapshots, publish, manager_vars, router>>

\* lines 418-476: the runtime ruleset is read under the lock again, then matched
RetrieveCompute ==
    /\ retrieve.pc = "checked"
    /\ request' = RetrieveRequest("compute", retrieve.facts, retrieve.token)
    /\ response' = HypergraphRetrieveResponse(store, retrieve.facts, retrieve.token)
    /\ retrieve' = Idle
    /\ UNCHANGED <<store, clock, snapshots, publish, manager_vars, router>>

\* Requests on one session, the steps of a publish interleaved with the rule handlers.
Next ==
    \/ GetActive
    \/ ReplaceRuleset
    \/ AddRule
    \/ UpdateRule
    \/ DeleteRule
    \/ \E p \in Publishers : PublishGetDraft(p)
    \/ \E p \in Publishers : PublishBuildCandidate(p)
    \/ \E p \in Publishers : PublishSerialize(p)
    \/ \E p \in Publishers : PublishVerify(p)

Spec == Init /\ [][Next]_vars

\* Every handler of the draft and publish, one request at a time.
NextSeq ==
    \/ GetActive
    \/ ReplaceRuleset
    \/ AddRule
    \/ UpdateRule
    \/ DeleteRule
    \/ AddIncompatibilityPair
    \/ UpdateIncompatibilityPair
    \/ DeleteIncompatibilityPair
    \/ AddInfeasibilityEntry
    \/ UpdateInfeasibilityEntry
    \/ DeleteInfeasibilityEntry
    \/ AddFactExclusion
    \/ DeleteFactExclusion
    \/ PublishSnapshot

SpecSeq == Init /\ [][NextSeq]_vars

\* Retrievals on one session, interleaved with rule edits and publishes.
NextRetrieve ==
    \/ AddRule
    \/ DeleteRule
    \/ PublishSnapshot
    \/ RetrieveCheck
    \/ RetrieveCompute

SpecRetrieve == Init /\ [][NextRetrieve]_vars

\* ------------------------------------------------------------------------
\* Conflict detection on its own: detect_conflicts applied to rule lists
\* ------------------------------------------------------------------------
ConflictRules ==
    { Hyperedge("r_obligate_immediate_pe_34", {"Dx.Preeclampsia", "Ctx.GA_>=34w"},
                <<"Obligated", "Action.ImmediateDelivery">>, ""),
      Hyperedge("r_reject_immediate_pe", {"Dx.Preeclampsia"},
                <<"Rejected", "Action.ImmediateDelivery">>, ""),
      Hyperedge("r_reject_immediate_demise", {"Dx.FetalDemise"},
                <<"Rejected", "Action.ImmediateDelivery">>, ""),
      Hyperedge("r_allow_immediate_pe", {"Dx.Preeclampsia"},
                <<"Allowed", "Action.ImmediateDelivery">>, ""),
      Hyperedge("r_disallow_immediate_pe", {"Dx.Preeclampsia"},
                <<"Disallowed", "Action.ImmediateDelivery">>, ""),
      Hyperedge("r_reject_expedited_pe", {"Dx.Preeclampsia"},
                <<"Rejected", "Action.ExpeditedDelivery">>, ""),
      Hyperedge("r_obligate_expedited_pe_34", {"Dx.Preeclampsia", "Ctx.GA_>=34w"},
                <<"Obligated", "Action.ExpeditedDelivery">>, ""),
      Hyperedge("r_risk_marker_pe", {"Dx.Preeclampsia"},
                <<"RiskMarker", "Action.ImmediateDelivery">>, ""),
      Hyperedge("r_reject_blank", {"Dx.FetalDemise"}, <<"Rejected", BLANK>>, ""),
      Hyperedge("r_obligate_blank", {"Dx.FetalDemise"}, <<"Obligated", BLANK>>, "") }

\* The rule lists handed to detect_conflicts: up to MaxRules different rules
InputRuleLists ==
    { rules \in UNION { [1..n -> ConflictRules] : n \in 0..MaxRules } :
        \A i, j \in DOMAIN rules : i # j => rules[i] # rules[j] }

\* The same rules in every order
Reorderings(rules) ==
    { other \in [DOMAIN rules -> Range(rules)] : Range(other) = Range(rules) }

ConflictRequest(step, rules) ==
    [handler |-> "detect_conflicts", step |-> step, rules |-> rules]

InitConflicts ==
    /\ clock = 0
    /\ store = NewStore(0)
    /\ snapshots = {}
    /\ publish = [p \in Publishers |-> Idle]
    /\ retrieve = Idle
    /\ ManagerInit
    /\ RouterInit
    /\ \E rules \in InputRuleLists : request = ConflictRequest("call", rules)
    /\ response = [status |-> 0]

\* detect_conflicts(rules)
DetectConflicts ==
    /\ request.step = "call"
    /\ request' = ConflictRequest("detect", request.rules)
    /\ response' = [status |-> 200, warnings |-> detect_conflicts(request.rules)]
    /\ UNCHANGED <<store, clock, snapshots, publish, retrieve, manager_vars, router>>

\* detect_conflicts on the same rules in another order
DetectReordered ==
    /\ request.step \in {"detect", "reorder"}
    /\ \E rules \in Reorderings(request.rules) :
          /\ request' = ConflictRequest("reorder", rules)
          /\ response' = [status |-> 200, warnings |-> detect_conflicts(rules)]
    /\ UNCHANGED <<store, clock, snapshots, publish, retrieve, manager_vars, router>>

\* main.py lines 701-707: the screen a publish applies to a bundle of these rules
ScreenForPublish ==
    /\ request.step \in {"detect", "reorder"}
    /\ request' = ConflictRequest("screen", request.rules)
    /\ \E payload \in PublishPayloads :
        \E ser \in {publish_serialize([manifest |-> store.draft.manifest, ruleset |-> request.rules],
                                       unresolvable_conflicts(request.rules), snapshots, clock,
                                       payload, "ok", TRUE)} :
          response' = [status |-> ser.status, warnings |-> detect_conflicts(request.rules)]
    /\ UNCHANGED <<store, clock, snapshots, publish, retrieve, manager_vars, router>>

\* main.py lines 701-775: a publish of a bundle of these rules, up to ruleset.json
SerializeRuleset ==
    /\ request.step \in {"detect", "reorder"}
    /\ request' = ConflictRequest("serialize", request.rules)
    /\ \E bundle \in {[manifest |-> store.draft.manifest, ruleset |-> request.rules,
                       infeasibility |-> store.draft.infeasibility]} :
       \E payload \in PublishPayloads :
        \E ser \in {publish_serialize(bundle, unresolvable_conflicts(bundle.ruleset),
                                       snapshots, clock, payload, "ok", TRUE)} :
          response' = [status |-> ser.status,
                       warnings |-> detect_conflicts(bundle.ruleset),
                       ruleset |-> IF ser.status = 0 THEN ruleset_payload(bundle) ELSE None]
    /\ UNCHANGED <<store, clock, snapshots, publish, retrieve, manager_vars, router>>

NextConflicts ==
    \/ DetectConflicts
    \/ DetectReordered
    \/ ScreenForPublish
    \/ SerializeRuleset

SpecConflicts == InitConflicts /\ [][NextConflicts]_vars

\* ------------------------------------------------------------------------
\* Requests on the session manager: get_or_create, then one store operation
\* ------------------------------------------------------------------------
\* SessionManager(ttl_seconds): the TTL of the manager explored
ttl_seconds == 1

\* InMemoryKernelArtifactStore(): a store object with its lock and last access;
\* `log` keeps the operations that succeeded on it, in the order of their writes,
\* `session_id` the session it was created for
StoreObject(now, wall, session_id) ==
    [store |-> NewStore(wall), last_accessed |-> now, lock |-> NoThread, log |-> << >>,
     session_id |-> session_id]

\* _cleanup_expired: the session map without the entries whose store is older than the TTL
cleanup_expired(sess, objects, now) ==
    [sid \in SessionIds |->
        IF sess[sid] # NoStore /\ now - objects[sess[sid]].last_accessed > ttl_seconds
        THEN NoStore ELSE sess[sid]]

\* A faulty get_or_create, which hands out the stored object without the cleanup
get_or_create_without_cleanup(sess, objects, now, wall, session_id) ==
    IF sess[session_id] # NoStore
    THEN [sessions |-> sess,
          heap |-> [objects EXCEPT ![sess[session_id]].last_accessed = now],
          store |-> sess[session_id]]
    ELSE [sessions |-> [sess EXCEPT ![session_id] = Len(objects) + 1],
          heap |-> Append(objects, StoreObject(now, wall, session_id)),
          store |-> Len(objects) + 1]

\* A faulty get_or_create, which hands every session the store created first
get_or_create_shared_store(sess, objects, now, wall, session_id) ==
    LET cleaned == cleanup_expired(sess, objects, now)
    IN IF cleaned[session_id] # NoStore
       THEN [sessions |-> cleaned,
             heap |-> [objects EXCEPT ![cleaned[session_id]].last_accessed = now],
             store |-> cleaned[session_id]]
       ELSE IF Len(objects) > 0
       THEN [sessions |-> [cleaned EXCEPT ![session_id] = 1],
             heap |-> [objects EXCEPT ![1].last_accessed = now],
             store |-> 1]
       ELSE [sessions |-> [cleaned EXCEPT ![session_id] = Len(objects) + 1],
             heap |-> Append(objects, StoreObject(now, wall, session_id)),
             store |-> Len(objects) + 1]

\* get_or_create, inside the manager's lock
get_or_create(sess, objects, now, wall, session_id) ==
    LET cleaned == cleanup_expired(sess, objects, now)
    IN IF cleaned[session_id] # NoStore
       THEN [sessions |-> cleaned,
             heap |-> [objects EXCEPT ![cleaned[session_id]].last_accessed = now],
             store |-> cleaned[session_id]]
       ELSE [sessions |-> [cleaned EXCEPT ![session_id] = Len(objects) + 1],
             heap |-> Append(objects, StoreObject(now, wall, session_id)),
             store |-> Len(objects) + 1]

\* active_session_count
active_session_count(sess) == Cardinality({sid \in SessionIds : sess[sid] # NoStore})

\* A faulty touch, which takes the store's lock
touch_under_store_lock(object) == object.lock = NoThread

\* touch: it takes no lock, so it can always run
touch_can_run(object) == TRUE

\* A faulty store lock, which lets a thread in while another holds it
store_lock_free_always(object) == TRUE

\* `with self._lock` of a store: the lock can be taken
store_lock_free(object) == object.lock = NoThread

\* The store operations a request goes on to
SessionOps == {"add_rule", "delete_rule", "promote"}
MutatingOps == {"add_rule", "delete_rule"}
SessionRule == Hyperedge(ID_NEW, {"Dx.FetalDemise"}, <<"Rejected", "Action.ImmediateDelivery">>, "")

\* The store method of a request, applied to the state the thread read under the lock
store_operation(local, op, wall) ==
    IF op = "add_rule" THEN add_rule(local, wall, SessionRule, USER)
    ELSE IF op = "delete_rule" THEN remove_rule(local, wall, ID_OBLIGATE_IMMEDIATE, ANONYMOUS)
    ELSE promote_candidate_to_runtime(
             local, wall, local.draft.manifest.updated_by,
             << sanitize_dir_component(local.draft.manifest.ruleset_version),
                local.draft.manifest.revision, wall >>)

single_session_vars == <<store, clock, snapshots, publish, retrieve>>

\* The store that the operations of `log`, run one after the other, leave behind
RECURSIVE sequential_result(_, _)
sequential_result(log, wall) ==
    IF log = << >> THEN NewStore(wall)
    ELSE store_operation(sequential_result(SubSeq(log, 1, Len(log) - 1), wall),
                         log[Len(log)], wall).store

\* A step of a request on the session manager that answers nothing yet
SessionStep ==
    /\ request' = [handler |-> "session", step |-> "thread"]
    /\ response' = [status |-> 0]

\* time.monotonic() advances
Tick ==
    /\ monotonic < MaxTime
    /\ monotonic' = monotonic + 1
    /\ SessionStep
    /\ UNCHANGED <<single_session_vars, router>>
    /\ UNCHANGED <<sessions, heap, manager_lock, threads, started>>

\* A request for a session arrives on a worker thread
BeginRequest(t) ==
    /\ threads[t].pc = "idle"
    /\ started < MaxRequests
    /\ started' = started + 1
    /\ \E session_id \in SessionIds, op \in SessionOps :
          threads' = [threads EXCEPT ![t] = [pc |-> "call", session_id |-> session_id, op |-> op]]
    /\ SessionStep
    /\ UNCHANGED <<single_session_vars, router, sessions, heap, manager_lock, monotonic>>

\* get_or_create: `with self._lock` of the manager
ManagerAcquire(t) ==
    /\ threads[t].pc = "call"
    /\ manager_lock = NoThread
    /\ manager_lock' = t
    /\ threads' = [threads EXCEPT ![t].pc = "get_or_create"]
    /\ SessionStep
    /\ UNCHANGED <<single_session_vars, router, sessions, heap, monotonic, started>>

\* get_or_create: cleanup, touch or create, return, and the lock is released
GetOrCreate(t) ==
    /\ threads[t].pc = "get_or_create"
    /\ \E cleaned \in {cleanup_expired(sessions, heap, monotonic)} :
          cleaned[threads[t].session_id] # NoStore
            => touch_can_run(heap[cleaned[threads[t].session_id]])
    /\ \E r \in {get_or_create(sessions, heap, monotonic, clock, threads[t].session_id)} :
          /\ sessions' = r.sessions
          /\ heap' = r.heap
          /\ threads' = [threads EXCEPT ![t] =
                            [pc |-> "has_store", session_id |-> threads[t].session_id,
                             op |-> threads[t].op, obj |-> r.store]]
    /\ manager_lock' = NoThread
    /\ SessionStep
    /\ UNCHANGED <<single_session_vars, router, monotonic, started>>

\* A store method: `with self._lock`, touch, and the reads of the method
StoreEnter(t) ==
    /\ threads[t].pc = "has_store"
    /\ store_lock_free(heap[threads[t].obj])
    /\ heap' = [heap EXCEPT ![threads[t].obj].lock = t,
                            ![threads[t].obj].last_accessed = monotonic]
    /\ threads' = [threads EXCEPT ![t] =
                      [pc |-> "in_store", session_id |-> threads[t].session_id,
                       op |-> threads[t].op, obj |-> threads[t].obj,
                       local |-> heap[threads[t].obj].store]]
    /\ SessionStep
    /\ UNCHANGED <<single_session_vars, router, sessions, manager_lock, monotonic, started>>

\* A store method: its assignments, its return, and the lock is released
StoreLeave(t) ==
    /\ threads[t].pc = "in_store"
    /\ \E r \in {store_operation(threads[t].local, threads[t].op, clock)} :
          /\ heap' = [heap EXCEPT
                         ![threads[t].obj].store = r.store,
                         ![threads[t].obj].lock = NoThread,
                         ![threads[t].obj].log =
                             IF r.raised = "" THEN Append(@, threads[t].op) ELSE @]
    /\ threads' = [threads EXCEPT ![t] = Idle]
    /\ SessionStep
    /\ UNCHANGED <<single_session_vars, router, sessions, manager_lock, monotonic, started>>

\* active_session_count, read under the manager's lock
ActiveSessionCount ==
    /\ manager_lock = NoThread
    /\ request' = [handler |-> "session", step |-> "active_session_count"]
    /\ response' = [status |-> 200, count |-> active_session_count(sessions)]
    /\ UNCHANGED <<single_session_vars, manager_vars, router>>

NextSessions ==
    \/ Tick
    \/ \E t \in Threads : BeginRequest(t)
    \/ \E t \in Threads : ManagerAcquire(t)
    \/ \E t \in Threads : GetOrCreate(t)
    \/ \E t \in Threads : StoreEnter(t)
    \/ \E t \in Threads : StoreLeave(t)
    \/ ActiveSessionCount

SpecSessions == Init /\ [][NextSessions]_vars

\* ------------------------------------------------------------------------
\* The rule handlers of one session, MaxEdits requests one after the other.
\* ------------------------------------------------------------------------
CanEdit == store.draft.manifest.revision <= MaxEdits

AddRuleEdit ==
    /\ CanEdit
    /\ \E edge \in InputRules :
          Handled([handler |-> "add_rule", edge |-> edge],
                  api_add_rule(store, clock, edge, USER))

UpdateRuleEdit ==
    /\ CanEdit
    /\ \E rule_id \in InputRuleIds, edge \in InputRules :
          Handled([handler |-> "update_rule", rule_id |-> rule_id, edge |-> edge],
                  api_update_rule(store, clock, rule_id, edge, USER))

DeleteRuleEdit ==
    /\ CanEdit
    /\ \E rule_id \in InputRuleIds :
          Handled([handler |-> "delete_rule", rule_id |-> rule_id],
                  api_delete_rule(store, clock, rule_id))

NextRules ==
    \/ AddRuleEdit
    \/ UpdateRuleEdit
    \/ DeleteRuleEdit

SpecRules == Init /\ [][NextRules]_vars

\* ------------------------------------------------------------------------
\* parse_verdict on texts.  A text is a sequence of lexemes: a word (a verdict
\* kind or another word), a parenthesis, a blank, a newline, a character.
\* ------------------------------------------------------------------------
NEWLINE == "\n"
TEXT_WHITESPACE == {" ", NEWLINE}
TextAlphabet == {"Rejected", "RiskMarker", "(", ")", " ", NEWLINE, "a"}
TokenChars == {"a", "."}

InputTexts == UNION { [1..n -> TextAlphabet] : n \in 0..MaxText }

\* Action tokens: registry strings, not empty and without blanks
InputActionTokens == UNION { [1..n -> TokenChars] : n \in 1..MaxToken }

\* A faulty parse_verdict, which takes any leading word for a kind
parse_verdict_text_any_word(outcome) ==
    LET s == Strip(outcome, TEXT_WHITESPACE)
        n == Len(s)
    IN IF /\ n >= 4
          /\ s[2] = "("
          /\ s[n] = ")"
          /\ \A i \in 3..(n - 1) : s[i] # NEWLINE
       THEN [kind |-> s[1], action |-> Strip(SubSeq(s, 3, n - 1), TEXT_WHITESPACE)]
       ELSE None

\* parse_verdict: _VERDICT_RE.match(outcome.strip()); the kind is group 1, the
\* action is group 2 stripped; (.+) is greedy and does not match a newline
parse_verdict_text(outcome) ==
    LET s == Strip(outcome, TEXT_WHITESPACE)
        n == Len(s)
    IN IF /\ n >= 4
          /\ s[1] \in VERDICT_KINDS
          /\ s[2] = "("
          /\ s[n] = ")"
          /\ \A i \in 3..(n - 1) : s[i] # NEWLINE
       THEN [kind |-> s[1], action |-> Strip(SubSeq(s, 3, n - 1), TEXT_WHITESPACE)]
       ELSE None

\* f"{v}({a})"
format_verdict(kind, action) == <<kind, "(">> \o action \o <<")">>

ParseRequest(step, kind, action, text) ==
    [handler |-> "parse_verdict", step |-> step, kind |-> kind, action |-> action,
     text |-> text]

\* Either a kind and an action token to format, or a text to parse
InitParse ==
    /\ clock = 0
    /\ store = NewStore(0)
    /\ snapshots = {}
    /\ publish = [p \in Publishers |-> Idle]
    /\ retrieve = Idle
    /\ ManagerInit
    /\ RouterInit
    /\ \/ \E kind \in VERDICT_KINDS, action \in InputActionTokens :
             request = ParseRequest("verdict", kind, action, << >>)
       \/ \E text \in InputTexts :
             request = ParseRequest("text", "", << >>, text)
    /\ response = [status |-> 0]

FormatVerdict ==
    /\ request.step = "verdict"
    /\ request' = ParseRequest("formatted", request.kind, request.action,
                               format_verdict(request.kind, request.action))
    /\ response' = [status |-> 0]
    /\ UNCHANGED <<store, clock, snapshots, publish, retrieve, manager_vars, router>>

ParseVerdict ==
    /\ request.step \in {"formatted", "text"}
    /\ request' = ParseRequest(IF request.step = "text" THEN "parsed" ELSE "round_trip",
                               request.kind, request.action, request.text)
    /\ response' = [status |-> 200, verdict |-> parse_verdict_text(request.text)]
    /\ UNCHANGED <<store, clock, snapshots, publish, retrieve, manager_vars, router>>

NextParse ==
    \/ FormatVerdict
    \/ ParseVerdict

SpecParse == InitParse /\ [][NextParse]_vars

\* ------------------------------------------------------------------------
\* A ProtocolRouter under add, remove, update and match
\* ------------------------------------------------------------------------
ProtocolIds == {"a", "ab", "z"}
ProtocolConditions == {"a", "b"}
PatientConditions == {"a", "b", "c"}

\* Protocols as the constructor admits them
InputProtocols ==
    { Protocol(id, "N", conditions) :
        id \in ProtocolIds, conditions \in (SUBSET ProtocolConditions) \ {{}} }

InputUpdates ==
    { [values |-> EmptyDict, nones |-> {"name"}],
      [values |-> [k \in {"id"} |-> "z"], nones |-> {}],
      [values |-> [k \in {"id"} |-> "ab"], nones |-> {"conditions"}],
      [values |-> [k \in {"name"} |-> ""], nones |-> {}],
      [values |-> [k \in {"name"} |-> "M"], nones |-> {}],
      [values |-> [k \in {"conditions"} |-> {}], nones |-> {}],
      [values |-> [k \in {"conditions"} |-> {"b"}], nones |-> {}] }

\* One router method, run to completion
RouterCalled(req, r) ==
    /\ \E res \in {r} :
          /\ router' = res.router
          /\ response' = [status |-> 0, raised |-> res.raised, result |-> res.result]
    /\ request' = req
    /\ UNCHANGED <<store, clock, snapshots, publish, retrieve, manager_vars>>

AddProtocol ==
    \E protocol \in InputProtocols :
        RouterCalled([handler |-> "add_protocol", protocol |-> protocol],
                     add_protocol(router, protocol))

RemoveProtocol ==
    \E protocol_id \in ProtocolIds :
        RouterCalled([handler |-> "remove_protocol", protocol_id |-> protocol_id],
                     remove_protocol(router, protocol_id))

UpdateProtocol ==
    \E protocol_id \in ProtocolIds, updates \in InputUpdates :
        RouterCalled([handler |-> "update_protocol", protocol_id |-> protocol_id,
                      updates |-> updates],
                     update_protocol(router, protocol_id, updates))

Match ==
    \E patient_conditions \in SUBSET PatientConditions :
        RouterCalled([handler |-> "match", patient_conditions |-> patient_conditions],
                     match(router, patient_conditions))

NextRouter ==
    \/ AddProtocol
    \/ RemoveProtocol
    \/ UpdateProtocol
    \/ Match

SpecRouter == Init /\ [][NextRouter]_vars

\* -- the constraint collections ---------------------------------------------
\* The requests on the three constraint collections, by route; a request is
\* explored when it leaves the draft revision within MaxRevision, so that the
\* requests that fail are also made on the drafts of the last revision.
WithinRevisions == store'.draft.manifest.revision <= MaxRevision

PostIncompatibility ==
    /\ \E pair \in InputPairs :
           Handled([handler |-> "add_incompatibility_pair", a |-> pair[1], b |-> pair[2]],
                   api_add_incompatibility_pair(store, clock, pair[1], pair[2], USER))
    /\ WithinRevisions

PutIncompatibility ==
    /\ \E index \in InputIndexes, pair \in InputPairs :
           Handled([handler |-> "update_incompatibility_pair", index |-> index,
                    a |-> pair[1], b |-> pair[2]],
                   api_update_incompatibility_pair(store, clock, index, pair[1], pair[2], USER))
    /\ WithinRevisions

DeleteIncompatibility ==
    /\ \E index \in InputIndexes :
           Handled([handler |-> "delete_incompatibility_pair", index |-> index],
                   api_delete_incompatibility_pair(store, clock, index))
    /\ WithinRevisions

PostInfeasibility ==
    /\ \E e \in InputInfeasibility :
           Handled([handler |-> "add_infeasibility_entry", entry |-> e],
                   api_add_infeasibility_entry(store, clock, e.action, e.premises, USER))
    /\ WithinRevisions

PutInfeasibility ==
    /\ \E index \in InputIndexes, e \in InputInfeasibility :
           Handled([handler |-> "update_infeasibility_entry", index |-> index, entry |-> e],
                   api_update_infeasibility_entry(store, clock, index, e.action, e.premises, USER))
    /\ WithinRevisions

DeleteInfeasibility ==
    /\ \E index \in InputIndexes :
           Handled([handler |-> "delete_infeasibility_entry", index |-> index],
                   api_delete_infeasibility_entry(store, clock, index))
    /\ WithinRevisions

PostFactExclusions ==
    /\ \E facts \in InputFactGroups :
           Handled([handler |-> "add_fact_exclusion", facts |-> facts],
                   api_add_fact_exclusion(store, clock, facts, USER))
    /\ WithinRevisions

DeleteFactExclusions ==
    /\ \E index \in InputIndexes :
           Handled([handler |-> "delete_fact_exclusion", index |-> index],
                   api_delete_fact_exclusion(store, clock, index))
    /\ WithinRevisions

NextConstraints ==
    \/ PostIncompatibility
    \/ PutIncompatibility
    \/ DeleteIncompatibility
    \/ PostInfeasibility
    \/ PutInfeasibility
    \/ DeleteInfeasibility
    \/ PostFactExclusions
    \/ DeleteFactExclusions

SpecConstraints == Init /\ [][NextConstraints]_vars

\* ------------------------------------------------------------------------
\* Properties of the store and of the publish request
\* ------------------------------------------------------------------------
\* C1: a publish request promotes only if verification was requested, ran and
\* reported ok; a publish with verify = false, a verification that is not ok,
\* a timeout or a certificate that could not be generated leaves the runtime
\* bundle and the verification status as they were.
C1_PromotionOnlyAfterVerificationOk ==
    [][request'.handler = "publish" =>
         LET changed == \/ store'.runtime_bundle # store.runtime_bundle
                        \/ store'.runtime_verification # store.runtime_verification
             finished == "runtimePromoted" \in DOMAIN response'
         IN /\ (changed \/ store'.draft # store.draft) =>
                  /\ finished
                  /\ request'.payload.verify
                  /\ response'.status = 200
                  /\ \/ response'.verifyResult = "ok"
                     \/ response'.certificateVerifyResult = "ok"
                  /\ response'.runtimePromoted
                  /\ store'.runtime_verification.status = "verified"
                  /\ store'.draft.proposals = << >>
            /\ (/\ finished
                /\ \/ ~request'.payload.verify
                   \/ response'.status = 504
                   \/ /\ response'.verifyResult # "ok"
                      /\ response'.certificateVerifyResult # "ok"
                   \/ /\ request'.payload.verifyMode = "certificate"
                      /\ ~response'.certificateGenerated) => ~changed
    ]_vars

\* A publish whose certificate check failed, on a session that already has a
\* verified runtime: the session is still verified.
C1_Witness ==
    /\ request.handler = "publish"
    /\ "runtimePromoted" \in DOMAIN response
    /\ request.payload.verify
    /\ response.certificateVerifyResult = "failed"
    /\ ~response.runtimePromoted
    /\ store.runtime_verification.status = "verified"
    /\ store.draft.proposals # << >>

\* C2: whenever a publish request asks for verification and the verification
\* reports ok, by the external verifier or by the certificate, the candidate is
\* promoted to runtime and the draft's proposals are cleared.
C2_VerifiedPublishPromotes ==
    (/\ request.handler = "publish"
     /\ "runtimePromoted" \in DOMAIN response
     /\ request.payload.verify
     /\ \/ response.verifyResult = "ok"
        \/ response.certificateVerifyResult = "ok")
    => /\ response.runtimePromoted
       /\ store.runtime_bundle # None
       /\ store.runtime_verification.status = "verified"
       /\ store.draft.proposals = << >>

\* C3: in every reachable state the runtime ruleset holds no pair of rules in
\* unresolvable conflict.
C3_RuntimeFreeOfUnresolvableConflicts ==
    store.runtime_bundle # None =>
        unresolvable_conflicts(store.runtime_bundle.ruleset) = {}

\* C4: the bundle a promoting publish installs as runtime has the rules and the
\* constraint collections of the candidate that this publish built, screened,
\* serialized and verified.
C4_PromotedBundleIsScreenedCandidate ==
    [][\A p \in Publishers :
         (/\ request'.handler = "publish"
          /\ request'.step = "verify"
          /\ request'.publisher = p
          /\ response'.runtimePromoted)
         => /\ store'.runtime_bundle.ruleset = publish[p].bundle.ruleset
            /\ store'.runtime_bundle.incompatibility = publish[p].bundle.incompatibility
            /\ store'.runtime_bundle.infeasibility = publish[p].bundle.infeasibility
            /\ store'.runtime_bundle.fact_exclusions = publish[p].bundle.fact_exclusions
    ]_vars

\* C5: if the candidate holds an unresolvable conflict, publish fails with the
\* conflict error (409) before any snapshot directory or file is created, and
\* the draft, the runtime bundle and the verification status are unchanged.
C5_ConflictBlocksPublish ==
    [][\A p \in Publishers :
         (/\ request'.handler = "publish"
          /\ request'.step = "serialize"
          /\ request'.publisher = p
          /\ \E w \in detect_conflicts(publish[p].bundle.ruleset) : ~w.resolvable)
         => /\ response'.status = 409
            /\ snapshots' = snapshots
            /\ store' = store
            /\ publish'[p] = Idle
    ]_vars

\* A publish refused for a conflict: no directory exists, so the 409 is not the
\* answer to a directory that already exists.
C5_Witness ==
    /\ request.handler = "publish"
    /\ request.step = "serialize"
    /\ response.status = 409
    /\ snapshots = {}
    /\ \E w \in detect_conflicts(build_candidate_unlocked(store).ruleset) : ~w.resolvable

\* C6: only a promotion changes the runtime bundle or the verification status:
\* every draft request and the building of a candidate leave both unchanged,
\* whether the request succeeds or fails.
C6_OnlyPromotionChangesRuntime ==
    [][LET changed == \/ store'.runtime_bundle # store.runtime_bundle
                      \/ store'.runtime_verification # store.runtime_verification
       IN /\ request'.handler # "publish" => ~changed
          /\ changed => /\ "runtimePromoted" \in DOMAIN response'
                        /\ response'.runtimePromoted
    ]_vars

\* A draft request that succeeded on a session with a verified runtime.
C6_Witness ==
    /\ request.handler = "replace_active_ruleset"
    /\ response.status = 200
    /\ store.runtime_bundle # None
    /\ store.runtime_verification.status = "verified"

\* C7: in every reachable state no two of the draft's proposals have the same
\* rule id.
C7_DraftRuleIdsUnique ==
    \A i, j \in 1..Len(store.draft.proposals) :
        store.draft.proposals[i].edge_id = store.draft.proposals[j].edge_id => i = j

\* C8: every successful mutation of the draft yields the previous revision plus
\* one, and the draft revision never decreases.
C8_RevisionAdvancesByOne ==
    [][/\ store'.draft.manifest.revision >= store.draft.manifest.revision
       /\ (/\ request'.handler \notin {"publish", "get_active_kernel_artifacts"}
           /\ response'.status = 200)
          => store'.draft.manifest.revision = store.draft.manifest.revision + 1
    ]_vars

\* A constraint entry was removed and the revision advanced.
C8_Witness ==
    /\ request.handler = "delete_fact_exclusion"
    /\ response.status = 200
    /\ store.draft.manifest.revision = 2
    /\ store.draft.fact_exclusions = << >>

\* C9: adding a rule whose id is already in the draft fails with the conflict
\* error (409, once the payload has passed validation) and leaves the whole
\* draft unchanged.
C9_AddDuplicateRuleRefused ==
    [][(/\ request'.handler = "add_rule"
        /\ request'.edge.edge_id \in EdgeIds(store.draft.proposals))
       => /\ store'.draft = store.draft
          /\ response'.status # 200
          /\ (/\ validate_outcome_token(request'.edge.expected_outcome)
              /\ validate_fact_tokens(request'.edge.premises))
             => response'.status = 409
    ]_vars

\* A rule with the id of a seeded rule was offered and refused.
C9_Witness ==
    /\ request.handler = "add_rule"
    /\ response.status = 409
    /\ request.edge.edge_id \in EdgeIds(store.draft.proposals)

\* C10: updating or removing a rule id that is not among the draft's proposals
\* fails with the not-found error (404, once the payload has passed
\* validation) and leaves the draft unchanged, also when the runtime bundle
\* holds a rule of that id.
C10_AbsentRuleNotFound ==
    [][(/\ request'.handler \in {"update_rule", "delete_rule"}
        /\ request'.rule_id \notin EdgeIds(store.draft.proposals))
       => /\ store'.draft = store.draft
          /\ response'.status # 200
          /\ (request'.handler = "update_rule" =>
                /\ validate_outcome_token(request'.edge.expected_outcome)
                /\ validate_fact_tokens(request'.edge.premises))
             => response'.status = 404
    ]_vars

\* A rule that only the runtime bundle holds was addressed and not found.
C10_Witness ==
    /\ request.handler \in {"update_rule", "delete_rule"}
    /\ response.status = 404
    /\ store.runtime_bundle # None
    /\ request.rule_id \in EdgeIds(store.runtime_bundle.ruleset)
    /\ request.rule_id \notin EdgeIds(store.draft.proposals)

\* C11: an update or a removal by index on the incompatibility, infeasibility
\* or fact-exclusion collection, with an index that is negative or not below
\* the collection's length (any index, when the collection is empty), fails
\* with the out-of-range error (404, once the payload has passed validation)
\* and leaves the draft unchanged, revision included.
C11_IndexOutOfRangeRefused ==
    [][(/\ request'.handler \in {"update_incompatibility_pair", "delete_incompatibility_pair",
                                 "update_infeasibility_entry", "delete_infeasibility_entry",
                                 "delete_fact_exclusion"}
        /\ LET collection ==
                 IF request'.handler \in {"update_incompatibility_pair",
                                          "delete_incompatibility_pair"}
                 THEN store.draft.incompatibility
                 ELSE IF request'.handler = "delete_fact_exclusion"
                 THEN store.draft.fact_exclusions
                 ELSE store.draft.infeasibility
           IN request'.index < 0 \/ request'.index >= Len(collection))
       => /\ store'.draft = store.draft
          /\ response'.status # 200
          /\ (/\ request'.handler = "update_incompatibility_pair" =>
                   /\ validate_action_token(request'.a)
                   /\ validate_action_token(request'.b)
              /\ request'.handler = "update_infeasibility_entry" =>
                   /\ validate_action_token(request'.entry.action)
                   /\ validate_fact_tokens(Range(request'.entry.premises)))
             => response'.status = 404
    ]_vars

\* Index 0 was addressed on a fact-exclusion collection that had been emptied.
C11_Witness ==
    /\ request.handler = "delete_fact_exclusion"
    /\ request.index = 0
    /\ response.status = 404
    /\ store.draft.fact_exclusions = << >>
    /\ store.draft.manifest.revision = 2

\* C12: in every reachable state the draft's incompatibility collection holds
\* no two entries for one unordered pair of actions: (a, b) and (b, a) are the
\* same pair.
C12_IncompatibilityPairsUnique ==
    \A i, j \in 1..Len(store.draft.incompatibility) :
        LET p == store.draft.incompatibility[i]
            q == store.draft.incompatibility[j]
        IN {p.a, p.b} = {q.a, q.b} => i = j

\* C13: the ruleset returned by build_candidate_runtime_bundle has exactly the
\* rule ids of the runtime ruleset and of the draft's proposals, each once and
\* in ascending order of rule id; for an id among the proposals it holds the
\* draft's rule (the last one, should the draft hold several of that id),
\* otherwise the runtime's rule.
C13_CandidateMergesRuntimeAndDraft ==
    [][\A p \in Publishers :
         (/\ request'.handler = "publish"
          /\ request'.step = "build_candidate"
          /\ request'.publisher = p)
         => LET candidate == publish'[p].bundle.ruleset
                draft == store.draft.proposals
                runtime == IF store.runtime_bundle = None THEN << >>
                           ELSE store.runtime_bundle.ruleset
            IN /\ EdgeIds(candidate) = EdgeIds(runtime) \cup EdgeIds(draft)
               /\ \A i, j \in 1..Len(candidate) :
                     i < j => EdgeIdRank(candidate[i].edge_id) < EdgeIdRank(candidate[j].edge_id)
               /\ \A i \in 1..Len(candidate) :
                     IF candidate[i].edge_id \in EdgeIds(draft)
                     THEN \E k \in 1..Len(draft) :
                             /\ draft[k] = candidate[i]
                             /\ \A l \in (k + 1)..Len(draft) :
                                   draft[l].edge_id # candidate[i].edge_id
                     ELSE \E k \in 1..Len(runtime) : runtime[k] = candidate[i]
    ]_vars

\* A candidate was built where the draft holds another version of a runtime
\* rule and a rule the runtime does not have; the draft's version is in it.
C13_Witness ==
    /\ request.handler = "publish"
    /\ request.step = "build_candidate"
    /\ store.runtime_bundle # None
    /\ \E k \in 1..Len(store.draft.proposals), i \in 1..Len(store.runtime_bundle.ruleset) :
          /\ store.draft.proposals[k].edge_id = store.runtime_bundle.ruleset[i].edge_id
          /\ store.draft.proposals[k] # store.runtime_bundle.ruleset[i]
          /\ store.draft.proposals[k] \in Range(publish[request.publisher].bundle.ruleset)
    /\ EdgeIds(store.draft.proposals) \ EdgeIds(store.runtime_bundle.ruleset) # {}
    /\ EdgeIds(store.runtime_bundle.ruleset) \ EdgeIds(store.draft.proposals) # {}

\* C14: build_candidate_runtime_bundle changes neither the draft, the runtime
\* bundle (its provenance map included) nor the verification status, and a
\* second call with no mutation in between returns an equal bundle.  The draft
\* handlers build a candidate for their response, after their mutation: they
\* too leave the runtime bundle and the status as they were.
C14_BuildCandidateReadsOnly ==
    [][/\ request'.handler = "get_active_kernel_artifacts" => store' = store
       /\ request'.handler # "publish" =>
            /\ store'.runtime_bundle = store.runtime_bundle
            /\ store'.runtime_verification = store.runtime_verification
       /\ \A p \in Publishers :
            (/\ request'.handler = "publish"
             /\ request'.step = "build_candidate"
             /\ request'.publisher = p)
            => /\ store'.draft = store.draft
               /\ store'.runtime_bundle = store.runtime_bundle
               /\ store'.runtime_verification = store.runtime_verification
               /\ build_candidate_runtime_bundle(store').bundle = publish'[p].bundle
               /\ build_candidate_runtime_bundle(store').store = store'
    ]_vars

\* A candidate was built on a session whose draft has provenance for a rule
\* that the runtime's provenance map does not have.
C14_Witness ==
    /\ request.handler = "publish"
    /\ request.step = "build_candidate"
    /\ store.runtime_bundle # None
    /\ (DOMAIN store.draft.rule_provenance) \ (DOMAIN store.runtime_bundle.rule_provenance) # {}
    /\ publish[request.publisher].bundle.rule_provenance # store.runtime_bundle.rule_provenance

\* C15: each of the three constraint collections of the candidate that a
\* promotion installs is the draft's collection when that is not empty, and
\* the runtime's collection (empty when there is no runtime) when it is: a
\* draft collection emptied before the promotion leaves the runtime's
\* collection as it was.
C15_EmptyDraftCollectionCarriesRuntime ==
    [][(/\ request'.handler = "publish"
        /\ "runtimePromoted" \in DOMAIN response'
        /\ response'.runtimePromoted)
       => \A field \in {"incompatibility", "infeasibility", "fact_exclusions"} :
             store'.runtime_bundle[field] =
                IF store.draft[field] # << >> THEN store.draft[field]
                ELSE IF store.runtime_bundle = None THEN << >>
                ELSE store.runtime_bundle[field]
    ]_vars

\* The draft's fact exclusions were emptied at revision 2 and a promotion
\* followed: the runtime still has the fact exclusions of the first promotion.
C15_Witness ==
    /\ request.handler = "publish"
    /\ "runtimePromoted" \in DOMAIN response
    /\ response.runtimePromoted
    /\ store.draft.manifest.revision = 2
    /\ store.draft.fact_exclusions = << >>
    /\ store.runtime_bundle.fact_exclusions = SEED_FACT_EXCLUSIONS
    /\ store.runtime_verification.verified_snapshot_dir[2] = 2

\* C16: a promotion installs as runtime exactly the candidate computed from the
\* store as it was when the promotion ran, marks the runtime verified with the
\* verified_by and snapshot directory the publish handed over, empties the
\* draft's proposals and provenance, and leaves the draft's incompatibility,
\* infeasibility and fact-exclusion collections as they were.
C16_PromotionInstallsCandidate ==
    [][ ( /\ request'.handler = "publish"
          /\ request'.step = "verify"
          /\ response'.runtimePromoted )
        => LET p == request'.publisher
           IN /\ store'.runtime_bundle = build_candidate_unlocked(store)
              /\ store'.runtime_verification.status = "verified"
              /\ store'.runtime_verification.verified_by = publish[p].draft.manifest.updated_by
              /\ store'.runtime_verification.verified_snapshot_dir = publish[p].snapshot_dir
              /\ store'.draft.proposals = << >>
              /\ store'.draft.rule_provenance = EmptyDict
              /\ store'.draft.incompatibility = store.draft.incompatibility
              /\ store'.draft.infeasibility = store.draft.infeasibility
              /\ store'.draft.fact_exclusions = store.draft.fact_exclusions ]_vars

\* A promotion of a draft that a user had edited: the runtime holds the user's
\* rule, the status names the user, and the draft has no proposals left.
C16_Witness ==
    /\ request.handler = "publish"
    /\ request.step = "verify"
    /\ response.runtimePromoted
    /\ store.runtime_verification.status = "verified"
    /\ store.runtime_verification.verified_by = USER
    /\ ID_NEW \in EdgeIds(store.runtime_bundle.ruleset)
    /\ store.draft.proposals = << >>
    /\ store.draft.incompatibility # << >>

\* C17: in the state a promotion leaves, a candidate built from the store equals
\* the runtime bundle just promoted in every field other than proof_report: the
\* manifest, the ruleset, the rule provenance and the three constraint
\* collections.
C17_BuildAfterPromotionEqualsRuntime ==
    ( /\ request.handler = "publish"
      /\ "runtimePromoted" \in DOMAIN response
      /\ response.runtimePromoted )
    => LET built == build_candidate_unlocked(store)
       IN \A field \in DOMAIN built \ {"proof_report"} :
              built[field] = store.runtime_bundle[field]

\* C18: a retrieval is answered 412 (precondition failed) exactly when the
\* session's verification status is not "verified"; a retrieval that is answered
\* is computed from the runtime ruleset only: its candidate edges are the
\* runtime's rules, one for one, no rule that exists only in the draft appears,
\* and the answer is the one the same store would give with its draft edits
\* undone.
C18_RetrievalReadsVerifiedRuntimeOnly ==
    [][ request'.handler = "retrieve_hypergraph"
        => /\ request'.step = "check"
                => /\ (response'.status = 412) <=> (store.runtime_verification.status # "verified")
                   /\ response'.status \in {0, 412}
           /\ request'.step = "compute"
                => /\ response'.status = 200
                   /\ store.runtime_verification.status = "verified"
                   /\ store.runtime_bundle # None
                   /\ response'.candidateEdgeCount = Len(store.runtime_bundle.ruleset)
                   /\ \A i \in 1..Len(response'.candidateEdges) :
                        LET shown == response'.candidateEdges[i]
                            rule == store.runtime_bundle.ruleset[i]
                        IN /\ shown.edgeId = rule.edge_id
                           /\ shown.premises = rule.premises
                           /\ shown.expectedOutcome = rule.expected_outcome
                           /\ shown.edgeId \notin
                                EdgeIds(store.draft.proposals) \ EdgeIds(store.runtime_bundle.ruleset)
                   /\ response' = HypergraphRetrieveResponse(
                                     [store EXCEPT !.draft.proposals = << >>,
                                                   !.draft.rule_provenance = EmptyDict],
                                     request'.facts, request'.proposedActionToken) ]_vars

\* An answered retrieval on a verified session whose draft holds a rule the
\* runtime does not have, for facts that the draft's rule would match.
C18_Witness ==
    /\ request.handler = "retrieve_hypergraph"
    /\ request.step = "compute"
    /\ response.status = 200
    /\ "Dx.FetalDemise" \in request.facts
    /\ response.matchedEdgeCount > 0
    /\ ID_NEW \in EdgeIds(store.draft.proposals)
    /\ ID_NEW \notin EdgeIds(store.runtime_bundle.ruleset)

\* C19: detect_conflicts reports exactly one warning for each two different
\* rules of its input whose outcomes both parse and whose verdicts are for the
\* same action with kinds {Obligated, Rejected} or {Allowed, Rejected}, and no
\* warning for any other two rules; the pairs reported for the same rules in
\* another order are the same pairs.
C19_OneWarningPerConflictingPair ==
    [][ ( /\ request'.handler = "detect_conflicts"
          /\ request'.step \in {"detect", "reorder"} )
        => LET rules == request'.rules
               Kind(r) == r.expected_outcome[1]
               Target(r) == r.expected_outcome[2]
               Parsed(r) == Kind(r) \in {"Obligated", "Allowed", "Disallowed", "Rejected"}
               InConflict(a, b) ==
                   /\ Parsed(a) /\ Parsed(b)
                   /\ Target(a) = Target(b)
                   /\ \/ {Kind(a), Kind(b)} = {"Obligated", "Rejected"}
                      \/ {Kind(a), Kind(b)} = {"Allowed", "Rejected"}
               About(w) == {w.rule_a_id, w.rule_b_id}
           IN /\ \A i, j \in DOMAIN rules :
                   i < j =>
                     Cardinality({w \in response'.warnings :
                                     About(w) = {rules[i].edge_id, rules[j].edge_id}})
                       = IF InConflict(rules[i], rules[j]) THEN 1 ELSE 0
              /\ \A w \in response'.warnings :
                   /\ w.rule_a_id # w.rule_b_id
                   /\ About(w) \subseteq EdgeIds(rules)
              /\ request'.step = "reorder"
                   => {About(w) : w \in response'.warnings}
                        = {About(w) : w \in response.warnings} ]_vars

\* detect_conflicts on reordered rules of which two pairs conflict and one pair
\* (Obligated and Allowed for one action) does not.
C19_Witness ==
    /\ request.handler = "detect_conflicts"
    /\ request.step = "reorder"
    /\ Cardinality(response.warnings) = 2
    /\ {"r_obligate_immediate_pe_34", "r_allow_immediate_pe", "r_reject_immediate_pe"}
          = EdgeIds(request.rules)
    /\ request.rules[1].edge_id = "r_reject_immediate_pe"

\* C20: a conflict warning is marked resolvable exactly when the premises of one
\* of its two rules are a strict subset of the other's; when the premises are
\* equal, or neither contains the other, it is marked not resolvable, and a
\* publish of a bundle with such rules is refused with 409.
C20_ResolvableIffStrictSubset ==
    [][ ( /\ request'.handler = "detect_conflicts"
          /\ request'.step \in {"detect", "reorder", "screen"} )
        => LET rules == request'.rules
               Premises(id) == (CHOOSE r \in Range(rules) : r.edge_id = id).premises
               Strict(a, b) == a \subseteq b /\ a # b
           IN /\ \A w \in response'.warnings :
                   LET a == Premises(w.rule_a_id)
                       b == Premises(w.rule_b_id)
                   IN /\ w.resolvable <=> (Strict(a, b) \/ Strict(b, a))
                      /\ (a = b \/ (~(a \subseteq b) /\ ~(b \subseteq a))) => ~w.resolvable
              /\ request'.step = "screen"
                   => ( (\E w \in response'.warnings : ~w.resolvable)
                        <=> response'.status = 409 ) ]_vars

\* A publish screen refused for rules with one conflict that specificity
\* resolves and one between rules of equal premises.
C20_Witness ==
    /\ request.handler = "detect_conflicts"
    /\ request.step = "screen"
    /\ response.status = 409
    /\ \E w \in response.warnings : w.resolvable
    /\ \E w \in response.warnings :
          /\ ~w.resolvable
          /\ {w.rule_a_id, w.rule_b_id} = {"r_reject_immediate_pe", "r_allow_immediate_pe"}

\* C21: a request that would admit a rule or a constraint entry with a fact,
\* action or outcome outside the registry is answered 422 and leaves the draft
\* as it was (add rule, update rule, replace ruleset, add and update of
\* incompatibility, infeasibility and fact-exclusion entries); hence every rule
\* of the draft has a registry outcome and registry premises.
C21_UnregisteredTokensRefused ==
    [][ LET req == request'
            InRegistry(edge) ==
                /\ edge.expected_outcome \in REGISTRY.verdicts \X REGISTRY.actions
                /\ edge.premises \subseteq REGISTRY.facts
            Offends ==
                \/ /\ req.handler \in {"add_rule", "update_rule"}
                   /\ ~InRegistry(req.edge)
                \/ /\ req.handler = "replace_active_ruleset"
                   /\ \E i \in DOMAIN req.ruleset : ~InRegistry(req.ruleset[i])
                \/ /\ req.handler \in {"add_incompatibility_pair", "update_incompatibility_pair"}
                   /\ {req.a, req.b} \ REGISTRY.actions # {}
                \/ /\ req.handler \in {"add_infeasibility_entry", "update_infeasibility_entry"}
                   /\ \/ req.entry.action \notin REGISTRY.actions
                      \/ Range(req.entry.premises) \ REGISTRY.facts # {}
                \/ /\ req.handler = "add_fact_exclusion"
                   /\ Range(req.facts) \ REGISTRY.facts # {}
        IN /\ Offends => (response'.status = 422 /\ store'.draft = store.draft)
           /\ \A i \in DOMAIN store'.draft.proposals : InRegistry(store'.draft.proposals[i]) ]_vars

\* C22: when the external tooling of a publish fails (binary missing, timeout,
\* non-zero exit, whichever verifier is used), the publish answers with a
\* verification failure (an error status or a failed verification result, never
\* a promotion) and the store's draft, runtime bundle and verification status
\* are what they were before.
C22_ToolFailureLeavesStore ==
    [][ \A p \in Publishers :
          ( /\ request'.handler = "publish"
            /\ request'.step = "verify"
            /\ request'.publisher = p )
          => LET Failure(r) ==
                     \/ r.status \in {500, 504}
                     \/ r.verifyResult = "failed"
                     \/ r.certificateVerifyResult = "failed"
                 run == publish[p]
             IN /\ \A tool \in ToolsRun(run.payload, run.cert_generated) \ {"exit0"} :
                     LET r == publish_verify(store, clock, run.payload, run.draft,
                                             run.snapshot_dir, run.cert_generated, tool)
                     IN /\ Failure(r)
                        /\ ~r.runtimePromoted
                        /\ r.store = store
                /\ Failure(response')
                     => /\ ~response'.runtimePromoted
                        /\ store' = store ]_vars

\* A publish whose certificate check failed on a session that already has a
\* verified runtime and a rule proposed since: both are still there.
C22_Witness ==
    /\ request.handler = "publish"
    /\ request.step = "verify"
    /\ response.certificateVerifyResult = "failed"
    /\ ~response.runtimePromoted
    /\ store.runtime_verification.status = "verified"
    /\ ID_NEW \in EdgeIds(store.draft.proposals)
    /\ ID_NEW \notin EdgeIds(store.runtime_bundle.ruleset)

\* C23: when the snapshot directory of a publish exists already, or cannot be
\* created, or a snapshot file cannot be written, the publish answers with an
\* error (409 for the existing directory, 500 otherwise), leaves an existing
\* directory as it is, goes on to no verification and no promotion, and leaves
\* the store unchanged.
C23_SnapshotIoErrorStopsPublish ==
    [][ \A p \in Publishers :
          ( /\ request'.handler = "publish"
            /\ request'.step = "serialize"
            /\ request'.publisher = p )
          => LET run == publish[p]
                 dir == << sanitize_dir_component(run.bundle.manifest.ruleset_version),
                           run.bundle.manifest.revision, clock >>
             IN /\ \A fs \in FsOutcomes, cert_written \in CertOutcomes(run.payload) :
                     LET r == publish_serialize(run.bundle, {}, snapshots, clock,
                                                run.payload, fs, cert_written)
                     IN /\ dir \in snapshots => (r.status = 409 /\ r.snapshots = snapshots)
                        /\ (dir \notin snapshots /\ fs # "ok") => r.status = 500
                /\ dir \in snapshots => (response'.status = 409 /\ snapshots' = snapshots)
                /\ response'.status # 0
                     => /\ publish'[p] = Idle
                        /\ store' = store ]_vars

\* A publish refused because its snapshot directory exists, with no conflict in
\* the candidate that could have refused it.
C23_Witness ==
    /\ request.handler = "publish"
    /\ request.step = "serialize"
    /\ response.status = 409
    /\ snapshots # {}
    /\ unresolvable_conflicts(build_candidate_unlocked(store).ruleset) = {}
    /\ \A p \in Publishers : publish[p] = Idle

\* C24: get_or_create for a session whose store was last accessed more than the
\* TTL ago returns a new store in the seeded state (the seed rules and seed
\* constraints at revision 1, no runtime bundle, status unverified), and the
\* session is mapped to it; for a session accessed within the TTL it returns the
\* store the session had, in the state it had.
C24_ExpiredSessionIsReseeded ==
    [][ \A t \in Threads :
          (threads[t].pc = "get_or_create" /\ threads'[t].pc = "has_store")
          => LET sid == threads[t].session_id
                 old == sessions[sid]
                 got == threads'[t].obj
             IN /\ sessions'[sid] = got
                /\ (old # NoStore /\ monotonic - heap[old].last_accessed > ttl_seconds)
                     => /\ got \notin DOMAIN heap
                        /\ heap'[got].store.draft.proposals = SEED_RULES
                        /\ heap'[got].store.draft.manifest.revision = 1
                        /\ heap'[got].store.draft.incompatibility = SEED_INCOMPATIBILITY
                        /\ heap'[got].store.draft.infeasibility = SEED_INFEASIBILITY
                        /\ heap'[got].store.draft.fact_exclusions = SEED_FACT_EXCLUSIONS
                        /\ heap'[got].store.runtime_bundle = None
                        /\ heap'[got].store.runtime_verification.status = "unverified"
                /\ (old # NoStore /\ monotonic - heap[old].last_accessed <= ttl_seconds)
                     => /\ got = old
                        /\ heap'[got].store = heap[old].store ]_vars

\* A request that was handed a second, seeded store for a session whose first
\* store had a changed draft and was left alone for longer than the TTL.
C24_Witness ==
    \E t \in Threads :
        /\ threads[t].pc = "has_store"
        /\ threads[t].obj = 2
        /\ sessions[threads[t].session_id] = 2
        /\ heap[1].session_id = threads[t].session_id
        /\ heap[1].log # << >>
        /\ heap[2].store.draft.manifest.revision = 1
        /\ heap[2].store.draft.proposals = SEED_RULES

\* C25: the active session count never includes a session whose store was last
\* accessed longer ago than the TTL.
C25_CountExcludesExpiredSessions ==
    (request.handler = "session" /\ request.step = "active_session_count")
    => response.count
         = Cardinality({sid \in SessionIds :
                           /\ sessions[sid] # NoStore
                           /\ monotonic - heap[sessions[sid]].last_accessed <= ttl_seconds})

\* C26: whenever a request applies a mutation or a promotion to a store, that
\* store is still the one the session manager maps the request's session id
\* to: no store is evicted while a request that got it from get_or_create is
\* still running.
C26_NoEvictionWhileInFlight ==
    [][ \A t \in Threads :
          (threads[t].pc = "in_store" /\ threads'[t].pc = "idle")
          => sessions[threads[t].session_id] = threads[t].obj ]_vars

\* C27: a store operation of a request of one session (a draft mutation or a
\* promotion, with the candidate it builds) leaves the draft, runtime bundle and
\* verification status of every other session's store as they were; so does a
\* get_or_create for another session, and a store created after other sessions
\* have changed theirs still starts from the seed.
C27_SessionsIsolated ==
    [][ \A t \in Threads :
          LET Others == SessionIds \ {threads[t].session_id}
          IN /\ (threads[t].pc = "in_store" /\ threads'[t].pc = "idle")
                  => \A sid \in Others :
                        sessions[sid] # NoStore
                          => heap'[sessions[sid]].store = heap[sessions[sid]].store
             /\ (threads[t].pc = "get_or_create" /\ threads'[t].pc = "has_store")
                  => /\ \A sid \in Others :
                          sessions'[sid] # NoStore
                            => /\ sessions'[sid] = sessions[sid]
                               /\ heap'[sessions[sid]].store = heap[sessions[sid]].store
                     /\ \A o \in DOMAIN heap' \ DOMAIN heap :
                          heap'[o].store = NewStore(clock) ]_vars

\* Two sessions with a store each: the first promoted its seed rules, the second
\* added a rule to a draft that still has the seed revision behind it.
C27_Witness ==
    /\ sessions["s1"] # NoStore
    /\ sessions["s2"] # NoStore
    /\ sessions["s1"] # sessions["s2"]
    /\ heap[sessions["s1"]].store.runtime_verification.status = "verified"
    /\ heap[sessions["s1"]].store.draft.proposals = << >>
    /\ heap[sessions["s2"]].store.runtime_verification.status = "unverified"
    /\ heap[sessions["s2"]].log = <<"add_rule">>
    /\ \A t \in Threads : threads[t].pc = "idle"

\* C28: the operations that run concurrently on one store are linearizable:
\* the store is at every moment what the operations that succeeded on it leave
\* behind when run one after the other (in the order of their writes), none of
\* them is lost, and the draft's revision is the seed's revision plus the number
\* of successful mutations.
C28_StoreMutationsLinearizable ==
    \A o \in DOMAIN heap :
        LET mutations == {i \in DOMAIN heap[o].log : heap[o].log[i] \in MutatingOps}
        IN /\ heap[o].store = sequential_result(heap[o].log, clock)
           /\ heap[o].store.draft.manifest.revision = 1 + Cardinality(mutations)
           /\ Cardinality({t \in Threads : heap[o].lock = t}) <= 1
           /\ \A t \in Threads :
                 (threads[t].pc = "in_store" /\ threads[t].obj = o)
                   => threads[t].local = heap[o].store

\* One store on which the requests of the two threads both succeeded, an added
\* rule and a removed rule: both changes are in the draft at revision 3.
C28_Witness ==
    \E o \in DOMAIN heap :
        /\ heap[o].log = <<"delete_rule", "add_rule">>
        /\ heap[o].store.draft.manifest.revision = 3
        /\ ID_NEW \in EdgeIds(heap[o].store.draft.proposals)
        /\ ID_OBLIGATE_IMMEDIATE \notin EdgeIds(heap[o].store.draft.proposals)
        /\ \A t \in Threads : threads[t].pc = "idle"

\* C29: the session manager has a lock of its own, and no thread ever holds one
\* of the two kinds of lock while it waits for the other: the holder of the
\* manager's lock is inside get_or_create, holds no store lock and waits for
\* none, whatever store locks other threads hold; a holder of a store lock is
\* inside its store method and does not wait for the manager's lock.  So of the
\* threads that have a request in progress, at least one can always take its
\* next step (no deadlock).
C29_ManagerLockIndependentOfStoreLocks ==
    LET touched(t) == cleanup_expired(sessions, heap, monotonic)[threads[t].session_id]
        waits_for_store(t) ==
            \/ threads[t].pc = "has_store" /\ ~store_lock_free(heap[threads[t].obj])
            \/ /\ threads[t].pc = "get_or_create"
               /\ touched(t) # NoStore
               /\ ~touch_can_run(heap[touched(t)])
        waits_for_manager(t) == threads[t].pc = "call" /\ manager_lock # NoThread
    IN /\ \A t \in Threads :
             /\ manager_lock = t
                  => /\ threads[t].pc = "get_or_create"
                     /\ \A o \in DOMAIN heap : heap[o].lock # t
                     /\ ~waits_for_store(t)
             /\ threads[t].pc = "get_or_create" => manager_lock = t
             /\ \A o \in DOMAIN heap :
                   heap[o].lock = t
                     => /\ threads[t].pc = "in_store"
                        /\ threads[t].obj = o
                        /\ manager_lock # t
                        /\ ~waits_for_manager(t)
       /\ (\E t \in Threads : threads[t].pc # "idle")
             => \E t \in Threads :
                   /\ threads[t].pc # "idle"
                   /\ ~waits_for_store(t)
                   /\ ~waits_for_manager(t)

\* One thread is inside a store method of its session's store while the other
\* has just been handed the store of another session by get_or_create.
C29_Witness ==
    /\ threads["t1"].pc = "in_store"
    /\ heap[threads["t1"].obj].lock = "t1"
    /\ threads["t2"].pc = "has_store"
    /\ threads["t2"].session_id # threads["t1"].session_id
    /\ threads["t2"].obj = 2
    /\ manager_lock = NoThread

\* C30: replacing the draft's rules.  A list in which a rule id occurs twice is
\* refused (400) and the store is left as it was.  Otherwise the draft's
\* proposals are exactly the given rules; the provenance has exactly their ids,
\* an id that had a provenance in the draft keeps it and a new id gets one that
\* names the caller; the three constraint collections are unchanged and the
\* revision is the previous one plus one.
C30_ReplaceDraftProposals ==
    [][request'.handler = "replace_active_ruleset" =>
          LET rules == request'.ruleset
              before == store.draft
              after == store'.draft
          IN IF Cardinality(EdgeIds(rules)) # Len(rules)
             THEN /\ response'.status = 400
                  /\ store' = store
             ELSE /\ response'.status = 200
                  /\ after.proposals = rules
                  /\ DOMAIN after.rule_provenance = EdgeIds(rules)
                  /\ \A id \in EdgeIds(rules) :
                        IF id \in DOMAIN before.rule_provenance
                        THEN after.rule_provenance[id] = before.rule_provenance[id]
                        ELSE after.rule_provenance[id].created_by = USER
                  /\ after.incompatibility = before.incompatibility
                  /\ after.infeasibility = before.infeasibility
                  /\ after.fact_exclusions = before.fact_exclusions
                  /\ after.manifest.revision = before.manifest.revision + 1
    ]_vars

\* A replacement that kept one rule of the draft and brought a new one: the
\* kept rule has the provenance of the seed, the new one names the caller.
C30_Witness ==
    /\ request.handler = "replace_active_ruleset"
    /\ response.status = 200
    /\ Len(store.draft.proposals) = 2
    /\ store.draft.proposals = request.ruleset
    /\ store.draft.rule_provenance[ID_OBLIGATE_IMMEDIATE].created_by = "system"
    /\ store.draft.rule_provenance[ID_NEW].created_by = USER
    /\ store.draft.manifest.revision = 2

\* C31: provenance under add_rule and update_rule.  A successful update gives
\* the rule, under the id it has afterwards, the provenance it had before, and
\* leaves the provenance of every other rule of the draft as it was; a
\* successful add records a provenance that names the caller for the new rule
\* and leaves every other provenance as it was.
C31_UpdateRulePreservesProvenance ==
    [][LET before == store.draft.rule_provenance
           after == store'.draft.rule_provenance
       IN /\ (request'.handler = "update_rule" /\ response'.status = 200)
               => /\ request'.rule_id \in DOMAIN before
                       => after[request'.edge.edge_id] = before[request'.rule_id]
                  /\ \A id \in DOMAIN before \ {request'.rule_id} :
                        id \in DOMAIN after /\ after[id] = before[id]
          /\ (request'.handler = "add_rule" /\ response'.status = 200)
               => /\ DOMAIN after = DOMAIN before \cup {request'.edge.edge_id}
                  /\ after[request'.edge.edge_id].created_by = USER
                  /\ \A id \in DOMAIN before : after[id] = before[id]
    ]_vars

\* C32: a rule whose outcome is not Kind(Action), with one of the four kinds
\* and an action between the parentheses, is inert: it is in no conflict
\* warning, a publish is refused for conflicts only when two rules of that form
\* are in a conflict that is not resolvable, and a publish that is not refused
\* leaves the rule out of the rules of ruleset.json, while every rule whose
\* outcome is of that form is written there exactly once.
C32_NonParsingRulesAreInert ==
    [][ ( /\ request'.handler = "detect_conflicts"
          /\ request'.step = "serialize" )
        => LET rules == request'.rules
               Parses(r) == /\ Len(r.expected_outcome) = 2
                            /\ r.expected_outcome[1] \in VERDICT_KINDS
                            /\ r.expected_outcome[2] \notin {"", BLANK}
               Inert == {rules[i].edge_id : i \in {k \in DOMAIN rules : ~Parses(rules[k])}}
               Written(id) == {i \in DOMAIN response'.ruleset.rules :
                                  response'.ruleset.rules[i].id = id}
           IN /\ \A w \in response'.warnings : {w.rule_a_id, w.rule_b_id} \cap Inert = {}
              /\ response'.status = 409
                   => \E w \in response'.warnings :
                         ~w.resolvable /\ {w.rule_a_id, w.rule_b_id} \cap Inert = {}
              /\ response'.status = 0
                   => \A i \in DOMAIN rules :
                         Cardinality(Written(rules[i].edge_id))
                           = IF Parses(rules[i]) THEN 1 ELSE 0 ]_vars

C34_MatchReturnsActivatedProtocols ==
    [][request'.handler = "match" =>
          LET result == response'.result
              patient == request'.patient_conditions
          IN /\ response'.raised = ""
             /\ router' = router
             /\ Range(result) = {router.protocols[id] : id \in
                                   {i \in DOMAIN router.protocols :
                                       router.protocols[i].conditions \subseteq patient}}
             /\ \A i, j \in DOMAIN result : i # j => result[i].id # result[j].id
             /\ patient = {} => result = << >>
             /\ \A i, j \in DOMAIN result :
                   i < j =>
                     \/ Cardinality(result[i].conditions) > Cardinality(result[j].conditions)
                     \/ /\ Cardinality(result[i].conditions) = Cardinality(result[j].conditions)
                        /\ ProtocolIdRank(result[i].id) < ProtocolIdRank(result[j].id)
    ]_vars

\* The three protocols of test_match_ordering, registered and matched for a
\* patient with both conditions.
C34_Witness ==
    /\ request.handler = "match"
    /\ request.patient_conditions = {"a", "b"}
    /\ Len(response.result) = 3
    /\ response.result[1].id = "ab"
    /\ response.result[2].id = "a"
    /\ response.result[3].id = "z"
    /\ response.result[1].conditions = {"a", "b"}

\* C38: update_protocol is all-or-nothing: when it raises (the updated data is
\* refused by Protocol.__post_init__, or the new id is that of another
\* registered protocol), the router's protocols and its condition index are
\* what they were before the call, and the protocol is still registered.
C38_UpdateProtocolAllOrNothing ==
    [][(request'.handler = "update_protocol" /\ response'.raised # "")
          => /\ router' = router
             /\ request'.protocol_id \in DOMAIN router'.protocols
    ]_vars

\* C35: the runtime ruleset only grows: a rule id that is in the runtime
\* ruleset is in it after every step, whatever draft request or promotion the
\* step is.
C35_RuntimeRulesNeverRemoved ==
    [][LET Ids(bundle) == IF bundle = None THEN {} ELSE EdgeIds(bundle.ruleset)
       IN Ids(store.runtime_bundle) \subseteq Ids(store'.runtime_bundle)
    ]_vars

\* A second promotion, of a draft that was replaced by one rule after the
\* first: the runtime has that rule and still the rules of the first promotion,
\* none of which was in the draft.
C35_Witness ==
    /\ request.handler = "publish"
    /\ "runtimePromoted" \in DOMAIN response
    /\ response.runtimePromoted
    /\ store.runtime_bundle # None
    /\ store.runtime_bundle.manifest.revision = 2
    /\ \E i \in DOMAIN store.runtime_bundle.ruleset :
          /\ store.runtime_bundle.ruleset[i].edge_id = ID_NEW
          /\ store.runtime_bundle.ruleset[i].expected_outcome[1] = "RiskMarker"
    /\ {ID_OBLIGATE_IMMEDIATE, ID_ALLOW_EXPECTANT}
          \subseteq EdgeIds(store.runtime_bundle.ruleset)
    /\ store.draft.proposals = << >>

\* C36: a store starts unverified and without a runtime bundle; in every state
\* the verification status is verified exactly when there is a runtime bundle,
\* and it is unverified otherwise; a store that is verified stays verified.
C36_VerifiedIffRuntimeBundle ==
    /\ store.runtime_verification.status = "unverified"
    /\ store.runtime_bundle = None
    /\ [](/\ store.runtime_verification.status \in {"unverified", "verified"}
          /\ store.runtime_verification.status = "verified" <=> store.runtime_bundle # None)
    /\ [][store.runtime_verification.status = "verified"
            => store'.runtime_verification.status = "verified"]_vars

\* A verified store after a publish whose snapshot could not be written and
\* after a draft request: the status is still verified.
C36_Witness ==
    /\ store.runtime_verification.status = "verified"
    /\ store.runtime_bundle # None
    /\ request.handler = "publish"
    /\ request.step = "serialize"
    /\ response.status = 500
    /\ store.draft.manifest.revision = 2
    /\ store.runtime_bundle.manifest.revision = 1

\* C37: within a session the draft's revision identifies its content: a step
\* that leaves the revision as it was leaves the proposals and the three
\* constraint collections as they were, so that no two drafts of one revision
\* differ; this also for the step of a promotion, which resets the draft.
C37_RevisionIdentifiesDraft ==
    [][store'.draft.manifest.revision = store.draft.manifest.revision
          => /\ store'.draft.proposals = store.draft.proposals
             /\ store'.draft.incompatibility = store.draft.incompatibility
             /\ store'.draft.infeasibility = store.draft.infeasibility
             /\ store'.draft.fact_exclusions = store.draft.fact_exclusions
    ]_vars

====
